---- MODULE Spec2Model ----
(***************************************************************************)
(* Model of android/soong/genrule: the genrule and gensrcs module types.   *)
(*                                                                         *)
(* One behaviour of the model is one evaluation of                         *)
(* Module.GenerateAndroidBuildActions for one module, followed by the      *)
(* execution of the build statements it emitted.                           *)
(*                                                                         *)
(* Text is modelled at the level of lexemes: a command is a sequence of    *)
(* strings, each either a single significant character ("$", "(", ")",     *)
(* " ", "'") or a word that holds none of them.  A path is a record        *)
(* [root, dir, stem, ext]; String(p) is the text the Go code gets from     *)
(* p.String().                                                             *)
(***************************************************************************)
EXTENDS Integers, Sequences, FiniteSets, TLC

(***************************************************************************)
(* Bounds of the model.                                                    *)
(***************************************************************************)
\* longest list of plain source files given to a gensrcs module
MaxSrcs == 3
\* largest explicit shard_size property
MaxShardSize == 2

\* genrule.go: const defaultShardSize
defaultShardSize == 100

Nil == "<nil>"

(***************************************************************************)
(* Generic helpers on sequences.                                           *)
(***************************************************************************)
Range(s) == {s[i] : i \in 1..Len(s)}

RECURSIVE SeqsUpTo(_, _)
\* all sequences over S of length at most n
SeqsUpTo(S, n) ==
  IF n = 0 THEN {<<>>}
  ELSE LET shorter == SeqsUpTo(S, n - 1)
       IN  shorter \cup {Append(s, x) : s \in shorter, x \in S}

RECURSIVE Flatten(_)
\* concatenation of a sequence of sequences
Flatten(ss) == IF ss = <<>> THEN <<>> ELSE Head(ss) \o Flatten(Tail(ss))

RECURSIVE JoinWithSep(_, _)
\* strings.Join(strs, sep)
JoinWithSep(strs, sep) ==
  IF strs = <<>> THEN ""
  ELSE IF Len(strs) = 1 THEN strs[1]
  ELSE strs[1] \o sep \o JoinWithSep(Tail(strs), sep)

\* the text of a sequence of lexemes
Text(lexemes) == JoinWithSep(lexemes, "")

IsPrefixSeq(p, s) == Len(p) <= Len(s) /\ SubSeq(s, 1, Len(p)) = p

(***************************************************************************)
(* Paths.                                                                  *)
(***************************************************************************)
NoPath == [root |-> Nil, dir |-> <<>>, stem |-> "", ext |-> ""]

\* a file of the source tree, in the module's directory
SourcePath(stem, ext) == [root |-> "src", dir |-> <<>>, stem |-> stem, ext |-> ext]

\* an installed host tool
HostToolPath(name) == [root |-> "host", dir |-> <<"bin">>, stem |-> name, ext |-> ""]

\* android.PathForModuleGen(ctx, dir...): a directory below the module's gen directory
PathForModuleGenDir(dir) == [root |-> "gen", dir |-> dir, stem |-> "", ext |-> ""]

\* android.PathForModuleGen(ctx, dir..., file)
PathForModuleGen(dir, stem, ext) == [root |-> "gen", dir |-> dir, stem |-> stem, ext |-> ext]

\* the file name of a path: stem, and ".ext" when there is an extension
BaseName(p) == IF p.ext = "" THEN p.stem ELSE p.stem \o "." \o p.ext

\* the path elements below the root
Elements(p) == IF p.stem = "" /\ p.ext = "" THEN p.dir ELSE Append(p.dir, BaseName(p))

\* Path.String()
String(p) ==
  IF p.root = "src" THEN JoinWithSep(Elements(p), "/")
  ELSE JoinWithSep(<<p.root>> \o Elements(p), "/")

\* Paths.Strings()
Strings(ps) == [i \in 1..Len(ps) |-> String(ps[i])]

\* ModuleGenPath.Rel(): the path below the module's gen directory
Rel(p) == JoinWithSep(Elements(p), "/")

\* pathtools.ReplaceExtension / WritablePath.ReplaceExtension
ReplaceExtension(p, ext) == [p EXCEPT !.ext = ext]

\* android.GenPathWithExt(ctx, subdir, p, ext) for a source path p
GenPathWithExt(subdir, p, ext) ==
  PathForModuleGen(<<subdir>> \o p.dir, p.stem, ext)

\* filepath.Rel(dir, p) as path elements, for p below dir
RelElements(dir, p) == SubSeq(Elements(p), Len(Elements(dir)) + 1, Len(Elements(p)))

\* is p the directory dir or a path below it
Below(dir, p) == p.root = dir.root /\ IsPrefixSeq(Elements(dir), Elements(p))

sboxOutDir == "__SBOX_OUT_DIR__"

\* android.SboxPathForOutput(path, genDir)
SboxPathForOutput(p, genDir) ==
  JoinWithSep(<<sboxOutDir>> \o RelElements(genDir, p), "/")

\* the output file of another module that produces source files
ModuleOutPath(name, tag) == [root |-> "out", dir |-> <<name>>, stem |-> "gen" \o tag, ext |-> ""]

(***************************************************************************)
(* Module references (android.SrcIsModule, android.SrcIsModuleWithTag).    *)
(* A string is a sequence of lexemes; ":", "{" and "}" are lexemes of      *)
(* their own.                                                              *)
(***************************************************************************)
\* android.SrcIsModule(s): the module name of ":name", "" for anything else
SrcIsModule(s) == IF Len(s) > 1 /\ s[1] = ":" THEN Tail(s) ELSE <<>>

\* strings.IndexByte(s, c) from 1, 0 when c is not in s
IndexByte(s, c) ==
  IF \E i \in 1..Len(s) : s[i] = c
  THEN CHOOSE i \in 1..Len(s) : s[i] = c /\ \A j \in 1..(i - 1) : s[j] # c
  ELSE 0

\* android.SrcIsModuleWithTag(s): the module and the tag of ":name{tag}"
SrcIsModuleWithTag(s) ==
  IF Len(s) > 1 /\ s[1] = ":" THEN
    LET module == Tail(s)
        tagStart == IndexByte(module, "{")
    IN  IF tagStart > 1 /\ module[Len(module)] = "}"
        THEN [module |-> SubSeq(module, 1, tagStart - 1),
              tag |-> SubSeq(module, tagStart + 1, Len(module) - 1)]
        ELSE [module |-> module, tag |-> <<>>]
  ELSE [module |-> <<>>, tag |-> <<>>]

(***************************************************************************)
(* Errors reported to the module context (ctx.ModuleErrorf,                *)
(* ctx.PropertyErrorf).                                                    *)
(***************************************************************************)
ModuleError(msg, arg) == [prop |-> "", msg |-> msg, arg |-> arg]

PropertyError(prop, msg, arg) == [prop |-> prop, msg |-> msg, arg |-> arg]

(***************************************************************************)
(* android.Expand and proptools.ShellEscape.                               *)
(***************************************************************************)
RECURSIVE TrimLeft(_)
TrimLeft(s) == IF s # <<>> /\ Head(s) = " " THEN TrimLeft(Tail(s)) ELSE s

RECURSIVE TrimRight(_)
TrimRight(s) ==
  IF s # <<>> /\ s[Len(s)] = " " THEN TrimRight(SubSeq(s, 1, Len(s) - 1)) ELSE s

\* strings.TrimSpace
TrimSpace(s) == TrimRight(TrimLeft(s))

\* strings.HasPrefix(name, word + " ")
HasWordPrefix(name, word) == Len(name) >= 2 /\ name[1] = word /\ name[2] = " "

\* strings.TrimSpace(strings.TrimPrefix(name, word + " ")), as text
LabelOf(name) == Text(TrimSpace(SubSeq(name, 3, Len(name))))

\* the position of the first ")" of s at or after position i, 0 when there is none
RECURSIVE ClosingParen(_, _)
ClosingParen(s, i) ==
  IF i > Len(s) THEN 0
  ELSE IF s[i] = ")" THEN i
  ELSE ClosingParen(s, i + 1)

\* what a mapping callback hands back: the replacement text, the errors it
\* reported to the context on the way, and whether it saw $(depfile)
Mapped(val) == [val |-> val, rep |-> <<>>, dep |-> FALSE]

\* reportError that substitutes nothing for the failed reference
reportErrorEmptyValue(msg, arg) ==
  [val |-> <<>>, rep |-> <<PropertyError("cmd", msg, arg)>>, dep |-> FALSE]

\* genrule.go: reportError inside the cmd expansion callback
reportError(msg, arg) ==
  [val |-> <<"SOONG_ERROR">>, rep |-> <<PropertyError("cmd", msg, arg)>>, dep |-> FALSE]

\* the callback NewGenSrcs gives android.Expand, once per source file
PerFileMapping(ctx, name) ==
  IF name = <<"in">> THEN Mapped(<<String(ctx.in)>>)
  ELSE IF name = <<"out">> THEN Mapped(<<SboxPathForOutput(ctx.outFile, ctx.shardDir)>>)
  ELSE Mapped(<<"$", "(">> \o name \o <<")">>)

\* $(out) as the paths of the outputs outside the sandbox
SandboxOutsUnsandboxed(task) == Strings(task.out)

\* the $(out) expansion of a task
SandboxOuts(task) ==
  [i \in 1..Len(task.out) |-> SboxPathForOutput(task.out[i], task.genDir)]

\* $(location <label>) that takes the first path of a label with several
SingleLocationFirstOfMany(label, paths) ==
  IF Len(paths) = 0 THEN reportError("label has no files", label)
  ELSE Mapped(<<paths[1]>>)

\* lines 383-389: $(location <label>) for a bound label
SingleLocation(label, paths) ==
  IF Len(paths) = 0 THEN reportError("label has no files", label)
  ELSE IF Len(paths) > 1 THEN
    reportError("label has multiple files, use $(locations ...) to reference it", label)
  ELSE Mapped(<<paths[1]>>)

\* $(locations <label>) that expands a label without files to nothing
AllLocationsEmptyAccepted(label, paths) == Mapped(<<JoinWithSep(paths, " ")>>)

\* lines 396-399: $(locations <label>) for a bound label
AllLocations(label, paths) ==
  IF Len(paths) = 0 THEN reportError("label has no files", label)
  ELSE Mapped(<<JoinWithSep(paths, " ")>>)

\* the callback GenerateAndroidBuildActions gives android.Expand, once per task
TaskMapping(ctx, name) ==
  IF name = <<"location">> THEN
    IF Len(ctx.props.Tools) = 0 /\ Len(ctx.props.Tool_files) = 0 THEN
      reportError("at least one tools or tool_files is required if $(location) is used", "")
    ELSE
      LET paths == IF ctx.firstLabel \in DOMAIN ctx.locationLabels
                   THEN ctx.locationLabels[ctx.firstLabel] ELSE <<>>
      IN  IF Len(paths) = 0 THEN
            reportError("default label has no files", ctx.firstLabel)
          ELSE IF Len(paths) > 1 THEN
            reportError("default label has multiple files, use $(locations ...) to reference it",
                        ctx.firstLabel)
          ELSE Mapped(<<paths[1]>>)
  ELSE IF name = <<"in">> THEN Mapped(<<JoinWithSep(Strings(ctx.srcFiles), " ")>>)
  ELSE IF name = <<"out">> THEN Mapped(<<JoinWithSep(SandboxOuts(ctx.task), " ")>>)
  ELSE IF name = <<"depfile">> THEN
    IF ~ctx.props.Depfile THEN
      [reportError("$(depfile) used without depfile property", "") EXCEPT !.dep = TRUE]
    ELSE [Mapped(<<"__SBOX_DEPFILE__">>) EXCEPT !.dep = TRUE]
  ELSE IF name = <<"genDir">> THEN
    Mapped(<<SboxPathForOutput(ctx.task.genDir, ctx.task.genDir)>>)
  ELSE IF HasWordPrefix(name, "location") THEN
    LET label == LabelOf(name)
    IN  IF label \in DOMAIN ctx.locationLabels
        THEN SingleLocation(label, ctx.locationLabels[label])
        ELSE reportError("unknown location label", label)
  ELSE IF HasWordPrefix(name, "locations") THEN
    LET label == LabelOf(name)
    IN  IF label \in DOMAIN ctx.locationLabels
        THEN AllLocations(label, ctx.locationLabels[label])
        ELSE reportError("unknown locations label", label)
  ELSE reportError("unknown variable", Text(name))

\* the mapping callback of the expansion that ctx belongs to
Mapping(ctx, name) ==
  IF ctx.mode = "perfile" THEN PerFileMapping(ctx, name) ELSE TaskMapping(ctx, name)

ExpandFailed(acc, err) == [acc EXCEPT !.out = <<>>, !.err = err]

\* the position of the first "$" of s at or after position j, Len(s) + 1 when
\* there is none
NextDollar(s, j) ==
  LET at == {i \in j..Len(s) : s[i] = "$"}
  IN  IF at = {} THEN Len(s) + 1 ELSE CHOOSE i \in at : \A i2 \in at : i <= i2

RECURSIVE ExpandFrom(_, _, _, _)
\* android.Expand's walk over the template s from position j: the text up to
\* the next "$" is copied, then the "$" is handled
ExpandFrom(s, j, ctx, acc) ==
  LET d == NextDollar(s, j)
      copied == [acc EXCEPT !.out = @ \o SubSeq(s, j, d - 1)]
  IN  IF d > Len(s) THEN copied
      ELSE IF d + 1 > Len(s) THEN ExpandFailed(copied, "expected character after '$'")
      ELSE IF s[d + 1] = "(" THEN
        LET close == ClosingParen(s, d + 2)
        IN  IF close = 0 THEN ExpandFailed(copied, "missing )")
            ELSE LET name == TrimSpace(SubSeq(s, d + 2, close - 1))
                     r == Mapping(ctx, name)
                 IN  ExpandFrom(s, close + 1, ctx,
                                [out |-> copied.out \o r.val, rep |-> copied.rep \o r.rep,
                                 dep |-> copied.dep \/ r.dep, err |-> "",
                                 calls |-> Append(copied.calls, [name |-> name, val |-> r.val,
                                                                 rep |-> r.rep])])
      ELSE IF s[d + 1] = "$" THEN ExpandFrom(s, d + 2, ctx, [copied EXCEPT !.out = Append(@, "$")])
      ELSE ExpandFailed(copied, "expected '(' after '$'")

\* android.Expand(s, mapping): out is the expanded text ("" when err is set),
\* rep the errors the callback reported, dep whether $(depfile) was seen, and
\* calls the log of the calls of the callback: the name, the result, the errors
Expand(s, ctx) ==
  ExpandFrom(s, 1, ctx, [out |-> <<>>, rep |-> <<>>, dep |-> FALSE, err |-> "", calls |-> <<>>])

\* the lexemes that hold a character proptools.ShellEscape has to quote
UnsafeLexemes == {" ", "$", "(", ")", "'", ">", "&&", "#"}

RECURSIVE QuoteReplace(_)
\* singleQuoteReplacer: ' becomes '\''
QuoteReplace(s) ==
  IF s = <<>> THEN <<>>
  ELSE (IF Head(s) = "'" THEN <<"'", "\\", "'", "'">> ELSE <<Head(s)>>) \o QuoteReplace(Tail(s))

\* proptools.ShellEscape
ShellEscape(s) ==
  IF Range(s) \cap UnsafeLexemes = {} THEN s
  ELSE <<"'">> \o QuoteReplace(s) \o <<"'">>

(***************************************************************************)
(* The task generators.                                                    *)
(***************************************************************************)
\* android.ShardPaths has no plan for a shard size below 1: the call does
\* not return a list
ShardPathsUndefined(shardSize) == shardSize < 1

RECURSIVE ShardPaths(_, _)
\* android.ShardPaths(paths, shardSize), shardSize > 0
ShardPaths(paths, shardSize) ==
  IF paths = <<>> THEN <<>>
  ELSE IF Len(paths) > shardSize THEN
    <<SubSeq(paths, 1, shardSize)>> \o ShardPaths(SubSeq(paths, shardSize + 1, Len(paths)), shardSize)
  ELSE <<paths>>

\* strconv.Itoa
Itoa(i) == ToString(i)

\* NewGenSrcs: shardSize := defaultShardSize, or the shard_size property
ShardSizeOf(props) ==
  IF props.Shard_size = <<>> THEN defaultShardSize ELSE props.Shard_size[1]

\* a sandbox directory named by the shard index even for a single shard
ShardDirAlwaysIndexed(i, n) == PathForModuleGenDir(<<Itoa(i)>>)

\* NewGenSrcs: the sandbox directory of shard i (0-based) out of n
ShardDir(i, n) ==
  IF n > 1 THEN PathForModuleGenDir(<<Itoa(i)>>) ELSE PathForModuleGenDir(<<"gensrcs">>)

\* NewGenSrcs: the file shard i of n declares for the source file in
ShardOutFile(props, i, n, in) ==
  IF n > 1 THEN GenPathWithExt(Itoa(i), in, props.Output_extension)
  ELSE GenPathWithExt("gensrcs", in, props.Output_extension)

\* copyTo that names the files of the shard directory "0"
ShardCopyToShardFile(props, n, shard) ==
  IF n > 1
  THEN [j \in 1..Len(shard) |-> GenPathWithExt("0", shard[j], props.Output_extension)]
  ELSE <<>>

\* NewGenSrcs: the final files of a shard of n, empty when there is one shard
ShardCopyTo(props, n, shard) ==
  IF n > 1
  THEN [j \in 1..Len(shard) |-> GenPathWithExt("gensrcs", shard[j], props.Output_extension)]
  ELSE <<>>

\* NewGenSrcs: the expansion of the template for one source file of a shard
PerFileExpand(props, rawCommand, i, n, in) ==
  Expand(rawCommand, [mode |-> "perfile", in |-> in,
                      outFile |-> ShardOutFile(props, i, n, in), shardDir |-> ShardDir(i, n)])

\* NewGenSrcs: "bash -c " and the shell-escaped per-file command
PerFileCommand(props, rawCommand, i, n, in) ==
  <<"bash", " ", "-c", " ">> \o ShellEscape(PerFileExpand(props, rawCommand, i, n, in).out)

RECURSIVE JoinCommands(_)
\* strings.Join(commands, " && ")
JoinCommands(commands) ==
  IF commands = <<>> THEN <<>>
  ELSE IF Len(commands) = 1 THEN commands[1]
  ELSE commands[1] \o <<" ", "&&", " ">> \o JoinCommands(Tail(commands))

\* inputs that are only the first file of the shard
TaskInputsFirstOnly(shards, shard) == SubSeq(shard, 1, 1)

\* NewGenSrcs: the inputs of the task of a shard
TaskInputsAllSources(shards, shard) == Flatten(shards)

\* NewGenSrcs: in: shard
TaskInputs(shards, shard) == shard

\* NewGenSrcs: the generateTask of shard i (0-based) of the shards
GenSrcsTask(props, rawCommand, shards, i) ==
  LET shard == shards[i + 1]
      n     == Len(shards)
  IN  [in      |-> TaskInputs(shards, shard),
       out     |-> [j \in 1..Len(shard) |-> ShardOutFile(props, i, n, shard[j])],
       depFile |-> IF shard = <<>> THEN NoPath
                   ELSE ReplaceExtension(
                          GenPathWithExt("gensrcs", shard[1], props.Output_extension), "d"),
       copyTo  |-> ShardCopyTo(props, n, shard),
       genDir  |-> ShardDir(i, n),
       cmd     |-> JoinCommands([j \in 1..Len(shard) |->
                                   PerFileCommand(props, rawCommand, i, n, shard[j])]),
       shard   |-> i,
       shards  |-> n]

\* NewGenSrcs: the errors the per-file expansions of shard i report
GenSrcsTaskErrors(props, rawCommand, shards, i) ==
  LET shard == shards[i + 1]
      res(j) == PerFileExpand(props, rawCommand, i, Len(shards), shard[j])
  IN  Flatten([j \in 1..Len(shard) |->
                 IF res(j).err # "" THEN <<PropertyError("cmd", res(j).err, "")>> ELSE <<>>])

\* NewGenSrcs: taskGenerator
GenSrcsTasks(props, rawCommand, srcFiles) ==
  LET shards == ShardPaths(srcFiles, ShardSizeOf(props))
  IN  [i \in 1..Len(shards) |-> GenSrcsTask(props, rawCommand, shards, i - 1)]

\* NewGenSrcs: the errors taskGenerator reports
GenSrcsErrors(props, rawCommand, srcFiles) ==
  LET shards == ShardPaths(srcFiles, ShardSizeOf(props))
  IN  Flatten([i \in 1..Len(shards) |-> GenSrcsTaskErrors(props, rawCommand, shards, i - 1)])

\* NewGenRule: taskGenerator
GenRuleTasks(props, rawCommand, srcFiles) ==
  LET outs == [i \in 1..Len(props.Out) |->
                 PathForModuleGen(<<>>, props.Out[i].stem, props.Out[i].ext)]
  IN  <<[in      |-> srcFiles,
         out     |-> outs,
         depFile |-> IF outs = <<>> THEN NoPath ELSE ReplaceExtension(outs[1], "d"),
         copyTo  |-> <<>>,
         genDir  |-> PathForModuleGenDir(<<>>),
         cmd     |-> rawCommand,
         shard   |-> 0,
         shards  |-> 0]>>

\* Module.taskGenerator: the closure generatorFactory was given
taskGenerator(props, rawCommand, srcFiles) ==
  IF props.variant = "gensrcs" THEN GenSrcsTasks(props, rawCommand, srcFiles)
  ELSE GenRuleTasks(props, rawCommand, srcFiles)

\* the errors the task generator reports to the context
taskGeneratorErrors(props, rawCommand, srcFiles) ==
  IF props.variant = "gensrcs" THEN GenSrcsErrors(props, rawCommand, srcFiles)
  ELSE <<>>

(***************************************************************************)
(* The state.                                                              *)
(***************************************************************************)
VARIABLES
  props,          \* generatorProperties, genRuleProperties / genSrcsProperties, and the variant
  config,         \* what the context answers: AllowMissingDependencies, the tool modules
  pc,             \* the position inside GenerateAndroidBuildActions, "done" after it returned
  ctx,            \* the module context: the errors and missing dependencies reported so far
  locationLabels, \* the closure variable locationLabels
  firstLabel,     \* the closure variable firstLabel
  deps,           \* Module.deps
  srcFiles,       \* the local srcFiles
  tasks,          \* what the task generator returned
  k,              \* the index (from 1) of the task the loop over the tasks is at
  emit,           \* the locals copyFrom, outputFiles, zipArgs; Module.rawCommands; the rules built
  module,         \* Module.outputFiles, Module.outputDeps, set when generation ran to its end
  exec,           \* the executor: the state of every emitted build statement
  fs,             \* the files of the module's gen directory
  tmpZip,         \* <<the entries of the archive at tmpZip>>, <<>> when there is no such file
  hist            \* history: every addLocationLabel call, every Expand of a task, every merge

vars == <<props, config, pc, ctx, locationLabels, firstLabel, deps, srcFiles, tasks, k,
          emit, module, exec, fs, tmpZip, hist>>

genVars == <<ctx, locationLabels, firstLabel, deps, srcFiles, tasks, k, emit, module>>

(***************************************************************************)
(* Label resolution: GenerateAndroidBuildActions up to the task loop.      *)
(***************************************************************************)
\* the part of the state that addLocationLabel and the loops around it work on
LabelState == [locationLabels |-> locationLabels, firstLabel |-> firstLabel,
               errors |-> ctx.errors, missingDeps |-> ctx.missingDeps,
               deps |-> deps, srcFiles |-> srcFiles, seenTools |-> {},
               calls |-> hist.calls, directDeps |-> ctx.directDeps, panic |-> FALSE]

\* addLocationLabel that reports nothing for a label that is already bound
addLocationLabelSilent(st, label, paths) ==
  LET exists == label \in DOMAIN st.locationLabels
  IN  [st EXCEPT
         !.firstLabel = IF @ = "" THEN label ELSE @,
         !.locationLabels = IF exists THEN @ ELSE @ @@ (label :> paths),
         !.calls = Append(@, [label |-> label, paths |-> paths])]

\* addLocationLabel that makes every new label the default label
addLocationLabelLastIsDefault(st, label, paths) ==
  LET exists == label \in DOMAIN st.locationLabels
  IN  [st EXCEPT
         !.firstLabel = label,
         !.locationLabels = IF exists THEN @ ELSE @ @@ (label :> paths),
         !.errors = IF exists
                    THEN Append(@, [prop |-> "", msg |-> "multiple labels for", arg |-> label])
                    ELSE @,
         !.calls = Append(@, [label |-> label, paths |-> paths])]

\* addLocationLabel that lets a later binding replace the paths of a label
addLocationLabelOverwriting(st, label, paths) ==
  LET exists == label \in DOMAIN st.locationLabels
  IN  [st EXCEPT
         !.firstLabel = IF @ = "" THEN label ELSE @,
         !.locationLabels = [l \in DOMAIN @ \cup {label} |-> IF l = label THEN paths ELSE @[l]],
         !.errors = IF exists
                    THEN Append(@, [prop |-> "", msg |-> "multiple labels for", arg |-> label])
                    ELSE @,
         !.calls = Append(@, [label |-> label, paths |-> paths])]

\* addLocationLabel that makes every newly bound label the default label
addLocationLabelNewIsDefault(st, label, paths) ==
  LET exists == label \in DOMAIN st.locationLabels
  IN  [st EXCEPT
         !.firstLabel = IF exists THEN @ ELSE label,
         !.locationLabels = IF exists THEN @ ELSE @ @@ (label :> paths),
         !.errors = IF exists
                    THEN Append(@, [prop |-> "", msg |-> "multiple labels for", arg |-> label])
                    ELSE @,
         !.calls = Append(@, [label |-> label, paths |-> paths])]

\* addLocationLabel that accepts a second binding to the same path list
addLocationLabelSameAccepted(st, label, paths) ==
  LET exists == label \in DOMAIN st.locationLabels
      differs == exists /\ st.locationLabels[label] # paths
  IN  [st EXCEPT
         !.firstLabel = IF @ = "" THEN label ELSE @,
         !.locationLabels = IF exists THEN @ ELSE @ @@ (label :> paths),
         !.errors = IF differs
                    THEN Append(@, [prop |-> "", msg |-> "multiple labels for", arg |-> label])
                    ELSE @,
         !.calls = Append(@, [label |-> label, paths |-> paths])]

\* addLocationLabel
addLocationLabel(st, label, paths) ==
  LET exists == label \in DOMAIN st.locationLabels
  IN  [st EXCEPT
         !.firstLabel = IF @ = "" THEN label ELSE @,
         !.locationLabels = IF exists THEN @ ELSE @ @@ (label :> paths),
         !.errors = IF exists
                    THEN Append(@, [prop |-> "", msg |-> "multiple labels for", arg |-> label])
                    ELSE @,
         !.calls = Append(@, [label |-> label, paths |-> paths])]

\* a visit that records a disabled tool as missing whatever the mode
VisitToolDisabledAsMissing(st, cfg, dep) ==
  IF cfg.tools[dep.module] = "disabled"
  THEN [st EXCEPT !.missingDeps = @ \cup {dep.module}]
  ELSE LET bound == addLocationLabel(st, dep.label, <<String(HostToolPath(dep.module))>>)
       IN  [bound EXCEPT !.deps = Append(@, HostToolPath(dep.module)),
                         !.seenTools = @ \cup {dep.label}]

\* the body of the VisitDirectDepsBlueprint callback for one tool dependency:
\* tool is ctx.OtherModuleName(module), dep.label is tag.label
VisitTool(st, cfg, dep) ==
  LET kind == cfg.tools[dep.module]
      tool == dep.module
  IN  IF kind = "disabled" THEN
        IF cfg.allowMissing
        THEN [st EXCEPT !.missingDeps = @ \cup {tool}]
        ELSE [st EXCEPT !.errors = Append(@, ModuleError("depends on disabled module", tool))]
      ELSE IF kind = "notool" THEN
        [st EXCEPT !.errors = Append(@, ModuleError("is not a host tool provider", tool))]
      ELSE IF kind = "nopath" THEN
        [st EXCEPT !.errors = Append(@, ModuleError("host tool missing output file", tool))]
      ELSE
        LET bound == addLocationLabel(st, dep.label, <<String(HostToolPath(tool))>>)
        IN  [bound EXCEPT !.deps = Append(@, HostToolPath(tool)),
                          !.seenTools = @ \cup {dep.label}]

RECURSIVE VisitTools(_, _, _)
\* ctx.VisitDirectDepsBlueprint over the direct dependencies, in the order
\* they were added
VisitTools(st, cfg, directDeps) ==
  IF directDeps = <<>> THEN st
  ELSE VisitTools(VisitTool(st, cfg, Head(directDeps)), cfg, Tail(directDeps))

\* no placeholder label for a tool that was not seen
MissingToolLabelsNone(st, cfg, tools) == st

RECURSIVE MissingToolLabels(_, _, _)
\* the placeholder labels of the tools that were not seen
MissingToolLabels(st, cfg, tools) ==
  IF tools = <<>> THEN st
  ELSE MissingToolLabels(
         IF Text(Head(tools)) \notin st.seenTools
         THEN addLocationLabel(st, Text(Head(tools)),
                               <<"***missing tool " \o Text(Head(tools)) \o "***">>)
         ELSE st,
         cfg, Tail(tools))

\* GenerateAndroidBuildActions: if len(g.properties.Tools) > 0 { ... }
ToolLabels(st, cfg, p) ==
  IF Len(p.Tools) = 0 THEN st
  ELSE LET visited == VisitTools(st, cfg, st.directDeps)
       IN  IF cfg.allowMissing THEN MissingToolLabels(visited, cfg, p.Tools) ELSE visited

\* android.PathsForModuleSrc / PathsAndMissingDepsForModuleSrcExcludes of one entry
PathsForModuleSrc(entry) ==
  IF entry.kind = "file" THEN <<SourcePath(entry.stem, entry.ext)>>
  ELSE IF entry.kind = "glob2" THEN <<SourcePath(entry.stem \o "1", entry.ext),
                                      SourcePath(entry.stem \o "2", entry.ext)>>
  ELSE <<>>

\* android.PathsAndMissingDepsForModuleSrcExcludes of one srcs entry: the
\* output of the module a ":name{tag}" entry refers to, or the name as a
\* missing dependency
PathsAndMissingDepsForModuleSrcExcludes(cfg, entry) ==
  IF entry.kind = "module" THEN
    LET mt == SrcIsModuleWithTag(entry.ref)
    IN  IF cfg.modules[Text(mt.module)] = "missing"
        THEN [paths |-> <<>>, missingDeps |-> {Text(mt.module)}]
        ELSE [paths |-> <<ModuleOutPath(Text(mt.module), Text(mt.tag))>>, missingDeps |-> {}]
  ELSE [paths |-> PathsForModuleSrc(entry), missingDeps |-> {}]

\* the string of a tool_files or srcs entry, which becomes its label
EntryString(entry) ==
  IF entry.kind = "module" THEN Text(entry.ref)
  ELSE IF entry.kind = "file" THEN entry.stem \o "." \o entry.ext
  ELSE entry.stem \o "*." \o entry.ext

RECURSIVE ToolFileLabels(_, _)
\* GenerateAndroidBuildActions: for _, toolFile := range g.properties.Tool_files
ToolFileLabels(st, toolFiles) ==
  IF toolFiles = <<>> THEN st
  ELSE LET paths == PathsForModuleSrc(Head(toolFiles))
           bound == addLocationLabel([st EXCEPT !.deps = @ \o paths],
                                     EntryString(Head(toolFiles)), Strings(paths))
       IN  ToolFileLabels(bound, Tail(toolFiles))

RECURSIVE SrcLabels(_, _, _)
\* GenerateAndroidBuildActions: for _, in := range g.properties.Srcs; the
\* panic of line 308 ends the loop
SrcLabels(st, cfg, srcs) ==
  IF srcs = <<>> THEN st
  ELSE LET in == EntryString(Head(srcs))
           r == PathsAndMissingDepsForModuleSrcExcludes(cfg, Head(srcs))
       IN  IF r.missingDeps # {} THEN
             IF ~cfg.allowMissing THEN [st EXCEPT !.panic = TRUE]
             ELSE SrcLabels(addLocationLabel([st EXCEPT !.missingDeps = @ \cup r.missingDeps],
                                             in, <<"***missing srcs " \o in \o "***">>),
                            cfg, Tail(srcs))
           ELSE SrcLabels(addLocationLabel([st EXCEPT !.srcFiles = @ \o r.paths],
                                           in, Strings(r.paths)),
                          cfg, Tail(srcs))

\* the state after a label step
LabelsDone(st) ==
  /\ locationLabels' = st.locationLabels
  /\ firstLabel' = st.firstLabel
  /\ ctx' = [ctx EXCEPT !.errors = st.errors, !.missingDeps = st.missingDeps]
  /\ deps' = st.deps
  /\ srcFiles' = st.srcFiles
  /\ hist' = [hist EXCEPT !.calls = st.calls]

\* toolDepsMutator: the dependency one entry of tools adds, with its tag
hostToolDependencyLabelStripped(tool) ==
  LET m == SrcIsModule(tool)
  IN  [label |-> Text(IF m # <<>> THEN m ELSE tool), module |-> Text(IF m # <<>> THEN m ELSE tool)]

\* toolDepsMutator: the dependency one entry of tools adds, with its tag
hostToolDependency(tool) ==
  LET m == SrcIsModule(tool)
  IN  [label |-> Text(tool), module |-> Text(IF m # <<>> THEN m ELSE tool)]

\* toolDepsMutator, before GenerateAndroidBuildActions: a dependency on a
\* module that exists becomes a direct dependency; one on a missing module is
\* recorded as a missing dependency when they are allowed and is an error
\* that ends the build of the module when they are not
toolDepsMutator ==
  /\ pc = "deps"
  /\ LET added == [i \in 1..Len(props.Tools) |-> hostToolDependency(props.Tools[i])]
         missing == {i \in 1..Len(added) : config.tools[added[i].module] = "missing"}
         Keep(d) == config.tools[d.module] # "missing"
     IN  /\ ctx' = [ctx EXCEPT
                      !.directDeps = SelectSeq(added, Keep),
                      !.missingDeps = IF config.allowMissing
                                      THEN {added[i].module : i \in missing} ELSE @,
                      !.errors = IF ~config.allowMissing /\ missing # {}
                                 THEN <<ModuleError("depends on undefined module", "")>> ELSE @]
         /\ pc' = IF ~config.allowMissing /\ missing # {} THEN "done" ELSE "tools"
  /\ UNCHANGED <<props, config, locationLabels, firstLabel, deps, srcFiles, tasks, k, emit,
                 module, exec, fs, tmpZip, hist>>

\* GenerateAndroidBuildActions, lines 224-296: the tool labels, and the return
\* when an error was reported
ResolveTools ==
  /\ pc = "tools"
  /\ LET st == ToolLabels(LabelState, config, props)
     IN  /\ LabelsDone(st)
         /\ pc' = IF st.errors # <<>> THEN "done" ELSE "toolfiles"
  /\ UNCHANGED <<props, config, tasks, k, emit, module, exec, fs, tmpZip>>

\* GenerateAndroidBuildActions, lines 298-302
BindToolFiles ==
  /\ pc = "toolfiles"
  /\ LabelsDone(ToolFileLabels(LabelState, props.Tool_files))
  /\ pc' = "srcs"
  /\ UNCHANGED <<props, config, tasks, k, emit, module, exec, fs, tmpZip>>

\* GenerateAndroidBuildActions, lines 304-324
BindSrcs ==
  /\ pc = "srcs"
  /\ LET st == SrcLabels(LabelState, config, props.Srcs)
     IN  /\ LabelsDone(st)
         /\ pc' = IF st.panic THEN "done" ELSE "generate"
  /\ UNCHANGED <<props, config, tasks, k, emit, module, exec, fs, tmpZip>>

(***************************************************************************)
(* The task loop of GenerateAndroidBuildActions.                           *)
(***************************************************************************)
\* GenerateAndroidBuildActions, line 330: the call of the task generator
GenerateTasks ==
  /\ pc = "generate"
  /\ IF props.variant = "gensrcs" /\ ShardPathsUndefined(ShardSizeOf(props))
     THEN /\ pc' = "panic"
          /\ UNCHANGED <<tasks, ctx, k>>
     ELSE /\ tasks' = taskGenerator(props, props.Cmd, srcFiles)
          /\ ctx' = [ctx EXCEPT !.errors = @ \o taskGeneratorErrors(props, props.Cmd, srcFiles)]
          /\ k' = 1
          /\ pc' = IF tasks' = <<>> THEN "finish" ELSE "task"
  /\ UNCHANGED <<props, config, locationLabels, firstLabel, deps, srcFiles, emit, module,
                 exec, fs, tmpZip, hist>>

\* output labels that replace the labels bound before
OutLabelsForgetting(st, task, outs) ==
  [st EXCEPT !.locationLabels = [l \in {Rel(outs[i]) : i \in 1..Len(outs)} |-> <<l>>]]

RECURSIVE OutLabels(_, _, _)
\* for _, out := range task.out { addLocationLabel(out.Rel(), ...) }
OutLabels(st, task, outs) ==
  IF outs = <<>> THEN st
  ELSE OutLabels(addLocationLabel(st, Rel(Head(outs)),
                                  <<SboxPathForOutput(Head(outs), task.genDir)>>),
                 task, Tail(outs))

\* the zip arguments with -C at the gen directory in place of task.genDir
ZipArgsFromGenRoot(task) ==
  <<[flag |-> "-C", path |-> PathForModuleGenDir(<<>>)]>>
    \o [i \in 1..Len(task.out) |-> [flag |-> "-f", path |-> task.out[i]]]

\* android.JoinWithPrefix(task.out.Strings(), " -f "), after " -C " + task.genDir
ZipArgsOf(task) ==
  <<[flag |-> "-C", path |-> task.genDir]>>
    \o [i \in 1..Len(task.out) |-> [flag |-> "-f", path |-> task.out[i]]]

\* the name given to rule.Build
RuleName(task) == IF task.shards > 0 THEN "generator" \o Itoa(task.shard) ELSE "generator"

\* the statement of a task with cmd.ImplicitDepFile called whatever the depfile property
SboxRuleAlwaysDepFile(p, task, rawCommand, toolDeps) ==
  [name      |-> RuleName(task),
   sboxDir   |-> task.genDir,
   cmd       |-> rawCommand,
   outputs   |-> task.out,
   implicits |-> task.in \o toolDeps,
   depFile   |-> task.depFile]

\* the RuleBuilder statement of a task: the command in the sandbox task.genDir
SboxRule(p, task, rawCommand, toolDeps) ==
  [name      |-> RuleName(task),
   sboxDir   |-> task.genDir,
   cmd       |-> rawCommand,
   outputs   |-> task.out,
   implicits |-> task.in \o toolDeps,
   depFile   |-> IF p.Depfile THEN task.depFile ELSE NoPath]

\* copyFrom = task.out in place of append(copyFrom, task.out...)
CollectLastShardOnly(em, task) ==
  IF Len(task.copyTo) > 0
  THEN [em EXCEPT !.outputFiles = @ \o task.copyTo,
                  !.copyFrom = task.out,
                  !.zipArgs = @ \o ZipArgsOf(task)]
  ELSE [em EXCEPT !.outputFiles = @ \o task.out]

\* lines 444-457: what the task adds to copyFrom, outputFiles and zipArgs
Collect(em, task) ==
  IF Len(task.copyTo) > 0
  THEN [em EXCEPT !.outputFiles = @ \o task.copyTo,
                  !.copyFrom = @ \o task.out,
                  !.zipArgs = @ \o ZipArgsOf(task)]
  ELSE [em EXCEPT !.outputFiles = @ \o task.out]

\* the expansion of the command of a task against the labels bound so far
ExpandTask(p, st, srcs, task) ==
  Expand(task.cmd, [mode |-> "task", props |-> p, locationLabels |-> st.locationLabels,
                    firstLabel |-> st.firstLabel, srcFiles |-> srcs, task |-> task])

\* a depfile check that never fires
DepfileNotReferencedUnchecked(p, res) == FALSE

\* line 414: Bool(g.properties.Depfile) && !referencedDepfile
DepfileNotReferenced(p, res) == p.Depfile /\ ~res.dep

\* the body of the loop over the tasks, lines 331-457, for one task with outputs:
\* the labels, the errors, whether the function returns, what was emitted
TaskBody(p, st0, srcs, toolDeps, em, task) ==
  LET st  == OutLabels(st0, task, task.out)
      res == ExpandTask(p, st, srcs, task)
      reported == st.errors \o res.rep
  IN  IF res.err # "" THEN
        [st |-> [st EXCEPT !.errors = Append(reported, PropertyError("cmd", res.err, ""))],
         return |-> TRUE, emit |-> em, res |-> res]
      ELSE IF DepfileNotReferenced(p, res) THEN
        [st |-> [st EXCEPT !.errors = Append(reported,
                   PropertyError("cmd", "specified depfile=true but did not include a reference to '${depfile}' in cmd", ""))],
         return |-> TRUE, emit |-> em, res |-> res]
      ELSE
        [st |-> [st EXCEPT !.errors = reported],
         return |-> FALSE,
         emit |-> Collect([em EXCEPT !.rawCommands = Append(@, res.out),
                                     !.rules = Append(@, SboxRule(p, task, res.out, toolDeps))],
                          task),
         res |-> res]

\* the check a task without outputs does not pass
HasNoOutputsUnchecked(task) == FALSE

\* line 331: if len(task.out) == 0
HasNoOutputs(task) == Len(task.out) = 0

\* GenerateAndroidBuildActions, lines 331-334: a task without outputs
TaskWithoutOutputs ==
  /\ pc = "task"
  /\ HasNoOutputs(tasks[k])
  /\ ctx' = [ctx EXCEPT !.errors = Append(@, ModuleError("must have at least one output file", ""))]
  /\ pc' = "done"
  /\ UNCHANGED <<props, config, locationLabels, firstLabel, deps, srcFiles, tasks, k, emit,
                 module, exec, fs, tmpZip, hist>>

\* GenerateAndroidBuildActions, lines 336-457: one iteration of the task loop
TaskStep ==
  /\ pc = "task"
  /\ ~HasNoOutputs(tasks[k])
  /\ LET r == TaskBody(props, LabelState, srcFiles, deps, emit, tasks[k])
     IN  /\ locationLabels' = r.st.locationLabels
         /\ firstLabel' = r.st.firstLabel
         /\ ctx' = [ctx EXCEPT !.errors = r.st.errors]
         /\ emit' = r.emit
         /\ hist' = [hist EXCEPT
                       !.calls = r.st.calls,
                       !.expansions = Append(@, [task |-> k, cmd |-> tasks[k].cmd,
                                                 locationLabels |-> r.st.locationLabels,
                                                 firstLabel |-> r.st.firstLabel,
                                                 out |-> r.res.out, dep |-> r.res.dep,
                                                 err |-> r.res.err, rep |-> r.res.rep,
                                                 calls |-> r.res.calls,
                                                 bound |-> Len(r.st.calls)])]
         /\ pc' = IF r.return THEN "done" ELSE IF k = Len(tasks) THEN "finish" ELSE "task"
         /\ k' = IF r.return \/ k = Len(tasks) THEN k ELSE k + 1
  /\ UNCHANGED <<props, config, deps, srcFiles, tasks, module, exec, fs, tmpZip>>

\* Module.subDir: "gensrcs" for NewGenSrcs, "" for NewGenRule
SubDir(p) == IF p.variant = "gensrcs" THEN <<"gensrcs">> ELSE <<>>

\* lines 460-473: the BuildParams of the gensrcsMerge statement, if there is one
MergeParams(p, em) ==
  IF Len(em.copyFrom) > 0
  THEN <<[implicits |-> em.copyFrom,
          outputs   |-> em.outputFiles,
          zipArgs   |-> em.zipArgs,
          tmpZip    |-> IF SubDir(p) = <<>> THEN PathForModuleGen(<<>>, "", "zip")
                        ELSE PathForModuleGen(<<>>, SubDir(p)[1], "zip"),
          genDir    |-> PathForModuleGenDir(SubDir(p))]>>
  ELSE <<>>

\* Module.outputDeps that always names the output files themselves
OutputDepsAlwaysDirect(outputFiles) == outputFiles

\* lines 487-497: Module.outputDeps
OutputDeps(outputFiles) ==
  IF Len(outputFiles) <= 6 THEN outputFiles
  ELSE <<PathForModuleGen(<<>>, "genrule-phony", "")>>

\* lines 490-495: the phony statement, none for six outputs or fewer
PhonyParams(outputFiles) ==
  IF Len(outputFiles) <= 6 THEN <<>>
  ELSE <<[output |-> PathForModuleGen(<<>>, "genrule-phony", ""), inputs |-> outputFiles]>>

\* GenerateAndroidBuildActions, lines 460-498 (without Bazel): the merge
\* statement, Module.outputFiles and Module.outputDeps
Finish ==
  /\ pc = "finish"
  /\ emit' = [emit EXCEPT !.merge = MergeParams(props, emit),
                          !.phony = PhonyParams(emit.outputFiles)]
  /\ module' = [set |-> TRUE, outputFiles |-> emit.outputFiles,
                outputDeps |-> OutputDeps(emit.outputFiles)]
  /\ exec' = [rule |-> [i \in 1..Len(emit.rules) |-> "idle"],
              merge |-> IF MergeParams(props, emit) = <<>> THEN "none" ELSE "idle",
              merges |-> 0]
  /\ pc' = "done"
  /\ UNCHANGED <<props, config, ctx, locationLabels, firstLabel, deps, srcFiles, tasks, k,
                 fs, tmpZip, hist>>

(***************************************************************************)
(* The executor of the emitted build statements, and the merge.            *)
(***************************************************************************)
\* the largest number of times the merge statement is run in one behaviour
MaxMerges == 2

\* the files of the set files that are below the directory dir
FilesBelow(dir, files) == {f \in files : Below(dir, f)}

\* the name of the file f inside an archive made with -C dir
ZipEntry(dir, f) ==
  [dir |-> SubSeq(f.dir, Len(dir.dir) + 1, Len(f.dir)), stem |-> f.stem, ext |-> f.ext]

RECURSIVE SoongZipFrom(_, _, _)
\* soong_zip walking its arguments: -C sets the directory the names of the
\* following -f files are relative to
SoongZipFrom(args, cur, acc) ==
  IF args = <<>> THEN acc
  ELSE IF Head(args).flag = "-C" THEN SoongZipFrom(Tail(args), Head(args).path, acc)
  ELSE SoongZipFrom(Tail(args), cur, acc \cup {ZipEntry(cur, Head(args).path)})

\* soong_zip -o tmpZip @rsp: the entries of the archive
SoongZip(zipArgs) == SoongZipFrom(zipArgs, NoPath, {})

\* the files soong_zip is told to read
ZipInputs(zipArgs) == {zipArgs[i].path : i \in {j \in 1..Len(zipArgs) : zipArgs[j].flag = "-f"}}

\* zipsync -d dir zip: every file below dir that is not in the archive is
\* deleted, every entry of the archive is written below dir
ZipSync(dir, zip, files) ==
  (files \ FilesBelow(dir, files))
    \cup {PathForModuleGen(dir.dir \o e.dir, e.stem, e.ext) : e \in zip}

\* gensrcsMerge with the synchronisation before the archive is rewritten
gensrcsMergeSyncFirst(params, files, zip) ==
  IF ZipInputs(params.zipArgs) \subseteq files /\ zip # <<>>
  THEN [ok |-> TRUE, tmpZip |-> <<SoongZip(params.zipArgs)>>,
        fs |-> ZipSync(params.genDir, zip[1], files)]
  ELSE [ok |-> FALSE, tmpZip |-> zip, fs |-> files]

\* the rule gensrcsMerge: soong_zip -o tmpZip @tmpZip.rsp && zipsync -d genDir tmpZip
gensrcsMerge(params, files, zip) ==
  IF ZipInputs(params.zipArgs) \subseteq files
  THEN [ok |-> TRUE, tmpZip |-> <<SoongZip(params.zipArgs)>>,
        fs |-> ZipSync(params.genDir, SoongZip(params.zipArgs), files)]
  ELSE [ok |-> FALSE, tmpZip |-> zip, fs |-> files]

\* the build statements are run only for a module that was generated without
\* an error and has no missing dependency
Runnable == pc = "done" /\ module.set /\ ctx.errors = <<>> /\ ctx.missingDeps = {}

\* every input that some emitted statement produces has been produced
InputsReady(inputs) ==
  \A j \in 1..Len(inputs) : \A i \in 1..Len(emit.rules) :
    inputs[j] \in Range(emit.rules[i].outputs) => exec.rule[i] = "ok"

\* what a task statement leaves in the gen directory when its command succeeds
TaskWrites(rule) ==
  Range(rule.outputs) \cup (IF rule.depFile = NoPath THEN {} ELSE {rule.depFile})

\* the executor starts the statement of task i: its inputs are source files and tools
StartTask(i) ==
  /\ Runnable
  /\ exec.rule[i] = "idle"
  /\ exec' = [exec EXCEPT !.rule[i] = "running"]
  /\ UNCHANGED <<props, config, pc, genVars, fs, tmpZip, hist>>

\* the command of task i succeeds: sbox moves the declared files out of the sandbox
FinishTask(i) ==
  /\ Runnable
  /\ exec.rule[i] = "running"
  /\ exec' = [exec EXCEPT !.rule[i] = "ok"]
  /\ fs' = fs \cup TaskWrites(emit.rules[i])
  /\ UNCHANGED <<props, config, pc, genVars, tmpZip, hist>>

\* the command of task i fails: nothing leaves the sandbox
FailTask(i) ==
  /\ Runnable
  /\ exec.rule[i] = "running"
  /\ exec' = [exec EXCEPT !.rule[i] = "failed"]
  /\ UNCHANGED <<props, config, pc, genVars, fs, tmpZip, hist>>

\* the executor starts the merge statement once its inputs are ready
StartMerge ==
  /\ Runnable
  /\ exec.merge = "idle"
  /\ InputsReady(emit.merge[1].implicits)
  /\ exec' = [exec EXCEPT !.merge = "running"]
  /\ UNCHANGED <<props, config, pc, genVars, fs, tmpZip, hist>>

\* the merge command runs
Merged(r) ==
  /\ exec' = [exec EXCEPT !.merge = IF r.ok THEN "ok" ELSE "failed",
                          !.merges = @ + 1]
  /\ fs' = r.fs
  /\ tmpZip' = r.tmpZip
  /\ hist' = [hist EXCEPT !.merges = Append(@, FilesBelow(emit.merge[1].genDir, r.fs))]
  /\ UNCHANGED <<props, config, pc, genVars>>

\* the first run of the merge statement
FinishMerge ==
  /\ Runnable
  /\ exec.merge = "running"
  /\ Merged(gensrcsMerge(emit.merge[1], fs, tmpZip))

\* the merge statement is run again over the same shard outputs
MergeAgain ==
  /\ Runnable
  /\ exec.merge = "ok"
  /\ exec.merges < MaxMerges
  /\ Merged(gensrcsMerge(emit.merge[1], fs, tmpZip))

(***************************************************************************)
(* The modules the model is run on.                                        *)
(***************************************************************************)
File(stem, ext) == [kind |-> "file", stem |-> stem, ext |-> ext]

Glob2(stem, ext) == [kind |-> "glob2", stem |-> stem, ext |-> ext]

Glob0(stem, ext) == [kind |-> "glob0", stem |-> stem, ext |-> ext]

OutName(stem, ext) == [stem |-> stem, ext |-> ext]

\* $(name)
Ref(name) == <<"$", "(">> \o name \o <<")">>

CmdCopy == <<"cp", " ">> \o Ref(<<"in">>) \o <<" ">> \o Ref(<<"out">>)

CmdDepfile == <<"gen", " ">> \o Ref(<<"depfile">>) \o <<" ">> \o Ref(<<"in">>) \o <<" ">> \o Ref(<<"out">>)

CmdTool == Ref(<<"location">>) \o <<" ">> \o Ref(<<"in">>) \o <<" ">> \o Ref(<<"out">>)

CmdUnknown == <<"cp", " ">> \o Ref(<<"bogus">>) \o <<" ">> \o Ref(<<"out">>)

\* a template with a syntax error in front of its $(depfile)
CmdMalformed == <<"$", "x", " ">> \o Ref(<<"depfile">>)

\* echo $$ > $(out)
CmdDollar == <<"echo", " ", "$", "$", " ", ">", " ">> \o Ref(<<"out">>)

CmdLocation(label) == <<"cat", " ">> \o Ref(<<"location", " ", label>>)

CmdLocations(label) == <<"cat", " ">> \o Ref(<<"locations", " ", label>>)

\* the labels the templates refer to: one path, two paths, no path, never
\* bound, an output
RefLabels == {"a.c", "g*.c", "n*.c", "u.c", "o.h"}

LabelCmds ==
  {CmdCopy, CmdDepfile, CmdTool, CmdUnknown, CmdMalformed, CmdDollar}
    \cup {CmdLocation(l) : l \in RefLabels} \cup {CmdLocations(l) : l \in RefLabels}

NoTools == [t \in {"t"} |-> "host"]

NoModules == [m \in {"m"} |-> "present"]

ToolConfigs ==
  {[allowMissing |-> am, tools |-> NoTools, Tools |-> <<>>] : am \in BOOLEAN}
    \cup {[allowMissing |-> am, tools |-> [t \in {"t"} |-> kind], Tools |-> <<<<"t">>>>] :
            am \in BOOLEAN, kind \in {"host", "disabled"}}
    \cup {[allowMissing |-> TRUE, tools |-> [t \in {"t"} |-> "missing"], Tools |-> <<<<"t">>>>]}

\* genrule modules, for the labels and the expansion
GenRuleModules ==
  {[props  |-> [variant |-> "genrule", Tools |-> tc.Tools, Tool_files |-> tf, Srcs |-> srcs,
                Out |-> out, Cmd |-> cmd, Depfile |-> dep, Shard_size |-> <<>>,
                Output_extension |-> ""],
    config |-> [allowMissing |-> tc.allowMissing, tools |-> tc.tools, modules |-> NoModules],
    fs |-> {}, tmpZip |-> <<>>] :
     tc \in ToolConfigs,
     tf \in {<<>>, <<File("a", "c")>>},
     srcs \in SeqsUpTo({File("a", "c"), Glob2("g", "c"), Glob0("n", "c")}, 2),
     out \in {<<>>, <<OutName("o", "h")>>, <<OutName("a", "c"), OutName("o", "h")>>},
     cmd \in LabelCmds,
     dep \in BOOLEAN}

\* what an earlier build may have left in the final directory and at tmpZip
PriorStates ==
  {[fs |-> {}, tmpZip |-> <<>>],
   [fs |-> {PathForModuleGen(<<"gensrcs">>, "a", "h")}, tmpZip |-> <<>>],
   [fs |-> {PathForModuleGen(<<"gensrcs">>, "old", "h")}, tmpZip |-> <<>>],
   [fs |-> {PathForModuleGen(<<"gensrcs">>, "old", "h"), PathForModuleGen(<<"gensrcs">>, "a", "h")},
    tmpZip |-> <<{[dir |-> <<>>, stem |-> "old", ext |-> "h"]}>>]}

\* the plain source files of the gensrcs modules: as many as the longest list
PlainFiles ==
  LET stems == <<"a", "b", "c", "d", "e", "f">>
  IN  {File(stems[i], "c") : i \in 1..(IF MaxSrcs < Len(stems) THEN MaxSrcs ELSE Len(stems))}

\* gensrcs modules, for the shards and the merge
GenSrcsModules ==
  LET \* the prior state of the gen directory is varied for the modules
      \* that copy without a depfile, the others start from an empty directory
      Varied(m) == (m.props.Cmd = CmdCopy /\ ~m.props.Depfile)
                     \/ (m.fs = {} /\ m.tmpZip = <<>>
                          /\ (m.props.Cmd \in {CmdCopy, CmdDepfile, CmdUnknown}
                                \/ ~m.props.Depfile))
  IN {m \in
  {[props  |-> [variant |-> "gensrcs", Tools |-> <<>>, Tool_files |-> <<>>, Srcs |-> srcs,
                Out |-> <<>>, Cmd |-> cmd, Depfile |-> dep, Shard_size |-> size,
                Output_extension |-> "h"],
    config |-> [allowMissing |-> FALSE, tools |-> NoTools, modules |-> NoModules],
    fs |-> prior.fs, tmpZip |-> prior.tmpZip] :
     srcs \in SeqsUpTo(PlainFiles, MaxSrcs),
     cmd \in {CmdCopy, CmdDepfile, CmdUnknown, CmdDollar, CmdLocation("1/b.h")},
     dep \in BOOLEAN,
     size \in {<<>>} \cup {<<n>> : n \in 1..MaxShardSize},
     prior \in PriorStates} : Varied(m)}

\* a srcs entry that refers to another module, ref is the string ":name{tag}"
ModuleRef(ref) == [kind |-> "module", ref |-> ref]

\* two tools, the first of them present, disabled or missing and named with or
\* without a colon
TwoToolConfigs ==
  {[allowMissing |-> am,
    tools |-> [x \in {"t", "u"} |-> IF x = "t" THEN kind ELSE "host"],
    Tools |-> <<first, <<"u">>>>] :
     am \in BOOLEAN, kind \in {"host", "disabled", "missing"}, first \in {<<"t">>, <<":", "t">>}}

\* the templates of the modules with dependencies
DependencyCmds ==
  {CmdTool, CmdLocation("t"), CmdLocations("t"), CmdLocation(":t"), CmdLocation("u"),
   CmdLocation(":m"), CmdLocations(":m"), CmdLocations(":m{.x}")}

\* genrule modules with dependencies on other modules: tools, and srcs that
\* another module produces.  A srcs entry whose module is missing stops the
\* build before generation unless missing dependencies are allowed.
DependencyModules ==
  LET Panics(m) == m.config.modules["m"] = "missing" /\ ~m.config.allowMissing
  IN {m \in
  {[props  |-> [variant |-> "genrule", Tools |-> tc.Tools, Tool_files |-> tf, Srcs |-> srcs,
                Out |-> <<OutName("o", "h")>>, Cmd |-> cmd, Depfile |-> FALSE,
                Shard_size |-> <<>>, Output_extension |-> ""],
    config |-> [allowMissing |-> tc.allowMissing, tools |-> tc.tools,
                modules |-> [m \in {"m"} |-> IF srcs = <<>> THEN "present" ELSE km]],
    fs |-> {}, tmpZip |-> <<>>] :
     tc \in TwoToolConfigs,
     tf \in {<<>>, <<File("a", "c")>>},
     srcs \in {<<>>, <<ModuleRef(<<":", "m">>)>>,
                <<ModuleRef(<<":", "m", "{", ".x", "}">>), File("b", "c")>>},
     km \in {"present", "missing"},
     cmd \in DependencyCmds} : ~Panics(m)}

\* the strings of TestSrcIsModule and TestSrcIsModuleWithTag
ReferenceStrings ==
  {<<"foo">>, <<":", "foo">>, <<":", "foo", "{", ".bar", "}">>, <<":", "foo", "{", "}">>,
   <<":", "foo", ":", "bar">>, <<":", "foo", "{", ".bar">>, <<":", "foo.bar", "}">>}

\* genrule modules whose tools and srcs entries are the reference strings;
\* every module that is named exists
ReferenceModules ==
  {[props  |-> [variant |-> "genrule", Tools |-> <<tool>>, Tool_files |-> <<>>, Srcs |-> srcs,
                Out |-> <<OutName("o", "h")>>, Cmd |-> CmdTool, Depfile |-> FALSE,
                Shard_size |-> <<>>, Output_extension |-> ""],
    config |-> [allowMissing |-> FALSE,
                tools |-> [t \in {Text(r) : r \in ReferenceStrings}
                                   \cup {Text(Tail(r)) : r \in ReferenceStrings} |-> "host"],
                modules |-> [m \in {Text(Tail(r)) : r \in ReferenceStrings} \cup {"foo"}
                               |-> "present"]],
    fs |-> {}, tmpZip |-> <<>>] :
     tool \in ReferenceStrings,
     srcs \in {<<>>} \cup {<<ModuleRef(r)>> : r \in {x \in ReferenceStrings : x[1] = ":"}}}

\* a template with several references that can fail, and good ones between
CmdErrors ==
  Ref(<<"bogus">>) \o <<" ">> \o Ref(<<"in">>) \o <<" ">> \o Ref(<<"location", " ", "u.c">>)
    \o <<" ">> \o Ref(<<"depfile">>) \o <<" ">> \o Ref(<<"locations", " ", "n*.c">>)
    \o <<" ">> \o Ref(<<"location", " ", "g*.c">>) \o <<" ">> \o Ref(<<"location">>)
    \o <<" ">> \o Ref(<<"out">>)

\* genrule modules with that template
ErrorModules ==
  {[props  |-> [variant |-> "genrule", Tools |-> <<>>, Tool_files |-> tf, Srcs |-> srcs,
                Out |-> <<OutName("o", "h")>>, Cmd |-> CmdErrors, Depfile |-> dep,
                Shard_size |-> <<>>, Output_extension |-> ""],
    config |-> [allowMissing |-> FALSE, tools |-> NoTools, modules |-> NoModules],
    fs |-> {}, tmpZip |-> <<>>] :
     tf \in {<<>>, <<File("a", "c")>>, <<Glob2("g", "c")>>},
     srcs \in SeqsUpTo({File("u", "c"), Glob2("g", "c"), Glob0("n", "c")}, 2),
     dep \in BOOLEAN}

\* the names of seven files
SevenStems == <<"a", "b", "c", "d", "e", "f", "g">>

\* modules with six and with seven outputs: a genrule, and a gensrcs in one
\* shard and in two
ManyOutputModules ==
  {[props  |-> [variant |-> "genrule", Tools |-> <<>>, Tool_files |-> <<>>,
                Srcs |-> <<File("a", "c")>>,
                Out |-> [i \in 1..n |-> OutName(SevenStems[i], "h")], Cmd |-> CmdCopy,
                Depfile |-> FALSE, Shard_size |-> <<>>, Output_extension |-> ""],
    config |-> [allowMissing |-> FALSE, tools |-> NoTools, modules |-> NoModules],
    fs |-> {}, tmpZip |-> <<>>] : n \in {6, 7}}
  \cup
  {[props  |-> [variant |-> "gensrcs", Tools |-> <<>>, Tool_files |-> <<>>,
                Srcs |-> [i \in 1..n |-> File(SevenStems[i], "c")],
                Out |-> <<>>, Cmd |-> CmdCopy, Depfile |-> FALSE, Shard_size |-> size,
                Output_extension |-> "h"],
    config |-> [allowMissing |-> FALSE, tools |-> NoTools, modules |-> NoModules],
    fs |-> {}, tmpZip |-> <<>>] : n \in {6, 7}, size \in {<<>>, <<4>>}}

\* gensrcs modules with a shard_size that is not positive
ShardSizeModules ==
  {[props  |-> [variant |-> "gensrcs", Tools |-> <<>>, Tool_files |-> <<>>, Srcs |-> srcs,
                Out |-> <<>>, Cmd |-> CmdCopy, Depfile |-> FALSE, Shard_size |-> <<size>>,
                Output_extension |-> "h"],
    config |-> [allowMissing |-> FALSE, tools |-> NoTools, modules |-> NoModules],
    fs |-> {}, tmpZip |-> <<>>] :
     srcs \in {<<>>, <<File("a", "c")>>, <<File("a", "c"), File("b", "c")>>},
     size \in {0, -1}}

\* gensrcs modules with two source files that differ in their extension only
SameStemModules ==
  {[props  |-> [variant |-> "gensrcs", Tools |-> <<>>, Tool_files |-> <<>>,
                Srcs |-> <<File("a", "c"), File("a", "x")>>,
                Out |-> <<>>, Cmd |-> CmdCopy, Depfile |-> FALSE, Shard_size |-> <<size>>,
                Output_extension |-> "h"],
    config |-> [allowMissing |-> FALSE, tools |-> NoTools, modules |-> NoModules],
    fs |-> {}, tmpZip |-> <<>>] : size \in {1, 2}}

\* ls $(genDir) $(out) $(location o.h) $(location a.c)
CmdOutputs ==
  <<"ls", " ">> \o Ref(<<"genDir">>) \o <<" ">> \o Ref(<<"out">>) \o <<" ">>
    \o Ref(<<"location", " ", "o.h">>) \o <<" ">> \o Ref(<<"location", " ", "a.c">>)

\* ls $(genDir) $(location 0/a.h) $(location gensrcs/a.h) > $(out)
CmdShardOutputs ==
  <<"ls", " ">> \o Ref(<<"genDir">>) \o <<" ">> \o Ref(<<"location", " ", "0/a.h">>)
    \o <<" ">> \o Ref(<<"location", " ", "gensrcs/a.h">>) \o <<" ", ">", " ">> \o Ref(<<"out">>)

\* modules whose templates refer to their outputs and their sandbox directory
OutputRefModules ==
  {[props  |-> [variant |-> "genrule", Tools |-> <<>>, Tool_files |-> <<>>, Srcs |-> srcs,
                Out |-> out, Cmd |-> CmdOutputs, Depfile |-> FALSE, Shard_size |-> <<>>,
                Output_extension |-> ""],
    config |-> [allowMissing |-> FALSE, tools |-> NoTools, modules |-> NoModules],
    fs |-> {}, tmpZip |-> <<>>] :
     srcs \in {<<>>, <<File("a", "c")>>},
     out \in {<<OutName("o", "h")>>, <<OutName("a", "c"), OutName("o", "h")>>}}
  \cup
  {[props  |-> [variant |-> "gensrcs", Tools |-> <<>>, Tool_files |-> <<>>, Srcs |-> srcs,
                Out |-> <<>>, Cmd |-> CmdShardOutputs, Depfile |-> FALSE,
                Shard_size |-> <<size>>, Output_extension |-> "h"],
    config |-> [allowMissing |-> FALSE, tools |-> NoTools, modules |-> NoModules],
    fs |-> {}, tmpZip |-> <<>>] :
     srcs \in {<<File("a", "c")>>, <<File("a", "c"), File("b", "c")>>},
     size \in {1, 2}}

Modules ==
  GenRuleModules \cup GenSrcsModules \cup DependencyModules \cup ReferenceModules
    \cup ErrorModules \cup ManyOutputModules \cup ShardSizeModules \cup SameStemModules
    \cup OutputRefModules

Init ==
  \E m \in Modules :
    /\ props = m.props
    /\ config = m.config
    /\ fs = m.fs
    /\ tmpZip = m.tmpZip
    /\ pc = "deps"
    /\ ctx = [errors |-> <<>>, missingDeps |-> {}, directDeps |-> <<>>]
    /\ locationLabels = <<>>
    /\ firstLabel = ""
    /\ deps = <<>>
    /\ srcFiles = <<>>
    /\ tasks = <<>>
    /\ k = 0
    /\ emit = [copyFrom |-> <<>>, outputFiles |-> <<>>, zipArgs |-> <<>>, rawCommands |-> <<>>,
               rules |-> <<>>, merge |-> <<>>, phony |-> <<>>]
    /\ module = [set |-> FALSE, outputFiles |-> <<>>, outputDeps |-> <<>>]
    /\ exec = [rule |-> <<>>, merge |-> "none", merges |-> 0]
    /\ hist = [calls |-> <<>>, expansions |-> <<>>, merges |-> <<>>, fs0 |-> m.fs]

Next ==
  \/ toolDepsMutator
  \/ ResolveTools
  \/ BindToolFiles
  \/ BindSrcs
  \/ GenerateTasks
  \/ TaskWithoutOutputs
  \/ TaskStep
  \/ Finish
  \/ \E i \in DOMAIN exec.rule : StartTask(i)
  \/ \E i \in DOMAIN exec.rule : FinishTask(i)
  \/ \E i \in DOMAIN exec.rule : FailTask(i)
  \/ StartMerge
  \/ FinishMerge
  \/ MergeAgain

Spec == Init /\ [][Next]_vars

(***************************************************************************)
(* Helpers of the properties.                                              *)
(***************************************************************************)
\* the task generator has been called
TasksGenerated == k > 0

\* the errors of the sequence errs with the message msg and the argument arg
Reported(errs, msg, arg) == {i \in 1..Len(errs) : errs[i].msg = msg /\ errs[i].arg = arg}

\* the addLocationLabel calls for the label
CallsFor(label) == {i \in 1..Len(hist.calls) : hist.calls[i].label = label}

\* the first addLocationLabel call for a label that was bound
FirstCall(label) == CHOOSE i \in CallsFor(label) : \A j \in CallsFor(label) : i <= j

BoundLabels == {hist.calls[i].label : i \in 1..Len(hist.calls)}

RECURSIVE RefsFrom(_, _, _)
\* the variable references of a template, in order, up to its end or its first
\* syntax error: names are the references, ok is whether the end was reached
RefsFrom(s, j, names) ==
  IF \A i \in j..Len(s) : s[i] # "$" THEN [names |-> names, ok |-> TRUE]
  ELSE IF s[j] # "$" THEN
    RefsFrom(s, CHOOSE i \in j..Len(s) : s[i] = "$" /\ \A i2 \in j..(i - 1) : s[i2] # "$", names)
  ELSE IF j = Len(s) THEN [names |-> names, ok |-> FALSE]
  ELSE IF s[j + 1] = "$" THEN RefsFrom(s, j + 2, names)
  ELSE IF s[j + 1] = "(" /\ ClosingParen(s, j + 2) > 0 THEN
    RefsFrom(s, ClosingParen(s, j + 2) + 1,
             Append(names, TrimSpace(SubSeq(s, j + 2, ClosingParen(s, j + 2) - 1))))
  ELSE [names |-> names, ok |-> FALSE]

Refs(s) == RefsFrom(s, 1, <<>>)

\* the text $(depfile) occurs in the template
ContainsDepfile(s) ==
  \E j \in 1..Len(s) : j + 3 <= Len(s) /\ SubSeq(s, j, j + 3) = Ref(<<"depfile">>)

DepfileUnused == "$(depfile) used without depfile property"

DepfileUnreferenced ==
  "specified depfile=true but did not include a reference to '${depfile}' in cmd"

\* a build statement was emitted for the task
RuleEmittedFor(task) == \E i \in 1..Len(emit.rules) : emit.rules[i].name = RuleName(task)

(***************************************************************************)
(* C1.  Binding a label a second time.                                     *)
(***************************************************************************)
\* C1 (as claimed): a label bound again to the path list it already has is
\* accepted without an error, and a label bound again to another path list
\* is reported: for every label the number of "multiple labels" errors is the
\* number of its later bindings whose path list differs from the first.
C1_SameListRebindAccepted ==
  \A label \in BoundLabels :
    Cardinality(Reported(ctx.errors, "multiple labels for", label))
      = Cardinality({i \in CallsFor(label) :
                       i # FirstCall(label)
                       /\ hist.calls[i].paths # hist.calls[FirstCall(label)].paths})

\* C1 (amended): every binding of a label after its first one is reported as
\* a "multiple labels" error, whether the path list is the same or not.
C1_EveryRebindReported ==
  \A label \in BoundLabels :
    Cardinality(Reported(ctx.errors, "multiple labels for", label))
      = Cardinality(CallsFor(label)) - 1

\* a label was bound three times: to a list, to the same list, to another list
C1_Witness ==
  \E label \in BoundLabels :
    \E i, j \in CallsFor(label) :
      /\ FirstCall(label) < i /\ i < j
      /\ hist.calls[i].paths = hist.calls[FirstCall(label)].paths
      /\ hist.calls[j].paths # hist.calls[FirstCall(label)].paths

(***************************************************************************)
(* C2.  $(location L) and $(locations L).                                  *)
(***************************************************************************)
\* the paths the label had when the task was expanded, <<>> when it was unbound
PathsAt(e, label) ==
  IF label \in DOMAIN e.locationLabels THEN e.locationLabels[label] ELSE <<>>

\* what the claim says of one call of the expansion callback
LocationCallAsClaimed(e, c) ==
  LET label == LabelOf(c.name)
      bound == label \in DOMAIN e.locationLabels
      n     == Len(PathsAt(e, label))
  IN  IF HasWordPrefix(c.name, "location") THEN
        /\ c.rep = <<>> <=> (bound /\ n = 1)
        /\ ~bound => Reported(c.rep, "unknown location label", label) # {}
        /\ bound /\ n = 0 => Reported(c.rep, "label has no files", label) # {}
        /\ bound /\ n > 1 =>
             Reported(c.rep, "label has multiple files, use $(locations ...) to reference it",
                      label) # {}
        /\ c.rep = <<>> => c.val = <<PathsAt(e, label)[1]>>
      ELSE IF HasWordPrefix(c.name, "locations") THEN
        /\ c.rep = <<>> <=> (bound /\ n >= 1)
        /\ ~bound => Reported(c.rep, "unknown locations label", label) # {}
        /\ bound /\ n = 0 => Reported(c.rep, "label has no files", label) # {}
      ELSE TRUE

\* C2: in every expansion of a task, a reference $(location L) is expanded
\* without an error exactly when L is bound to one path, a reference
\* $(locations L) exactly when L is bound to at least one path; an unbound
\* L is reported as unknown, a label without paths as having no files, and
\* a singular reference to several paths as having multiple files.
C2_LocationErrors ==
  \A i \in 1..Len(hist.expansions) :
    LET e == hist.expansions[i]
    IN  /\ \A j \in 1..Len(e.calls) : LocationCallAsClaimed(e, e.calls[j])
        /\ e.err = "" => [j \in 1..Len(e.calls) |-> e.calls[j].name] = Refs(e.cmd).names

\* a singular reference to a label with two paths was reported, in a module
\* where the plural reference would not have been
C2_Witness ==
  \E i \in 1..Len(hist.expansions) :
    LET e == hist.expansions[i]
    IN  \E j \in 1..Len(e.calls) :
          /\ HasWordPrefix(e.calls[j].name, "location")
          /\ Len(PathsAt(e, LabelOf(e.calls[j].name))) = 2
          /\ e.calls[j].rep # <<>>

CeilDiv(n, d) == (n + d - 1) \div d

\* the input lists of the tasks, one after the other
AllInputs == Flatten([i \in 1..Len(tasks) |-> tasks[i].in])

\* C4: the per-file generator makes ceil(N / shardSize) tasks out of N source
\* files, N = 0 included, and the inputs of the tasks in order are the source
\* list.
C4_ShardCountAndOrder ==
  TasksGenerated /\ props.variant = "gensrcs" =>
    /\ Len(tasks) = CeilDiv(Len(srcFiles), ShardSizeOf(props))
    /\ AllInputs = srcFiles

\* three source files in shards of two: a full shard and a short one
C4_Witness ==
  /\ TasksGenerated /\ props.variant = "gensrcs"
  /\ Len(srcFiles) = 3 /\ ShardSizeOf(props) = 2
  /\ Len(tasks) = 2 /\ Len(tasks[2].in) = 1

GenSrcsDir == PathForModuleGenDir(<<"gensrcs">>)

\* what C5 says of a module whose sources fit into one shard
OneShardAsClaimed ==
  /\ Len(tasks) = 1
  /\ tasks[1].in = srcFiles
  /\ tasks[1].genDir = GenSrcsDir
  /\ tasks[1].copyTo = <<>>
  /\ module.set => emit.merge = <<>>

\* what C5 says of a module whose sources do not fit into one shard
ManyShardsAsClaimed ==
  /\ \A i \in 1..Len(tasks) : tasks[i].genDir = PathForModuleGenDir(<<Itoa(tasks[i].shard)>>)
  /\ module.set => Len(emit.merge) = 1

Expanded(i) == \E j \in 1..Len(hist.expansions) : hist.expansions[j].task = i

\* C10: no build statement is emitted without outputs; when the generator
\* hands back a task without outputs, "must have at least one output file"
\* is reported, the template of the task is not expanded, and generation
\* returns without the statement of the task and without a merge statement.
C10_NoRuleWithoutOutputs ==
  /\ \A i \in 1..Len(emit.rules) : Len(emit.rules[i].outputs) > 0
  /\ \A i \in 1..Len(tasks) :
       Len(tasks[i].out) = 0 /\ pc = "done" =>
         /\ Reported(ctx.errors, "must have at least one output file", "") # {}
         /\ ~Expanded(i)
         /\ ~RuleEmittedFor(tasks[i])
         /\ emit.merge = <<>>
         /\ ~module.set

\* a genrule without out, with a template that would have expanded cleanly
C10_Witness ==
  /\ pc = "done" /\ TasksGenerated
  /\ Len(tasks) = 1 /\ Len(tasks[1].out) = 0
  /\ props.Cmd = CmdCopy
  /\ Len(ctx.errors) = 1

(***************************************************************************)
(* C6, C7, C8, C9.  The merge of the shards.                               *)
(***************************************************************************)
\* the final files the tasks declare: their copyTo lists
DeclaredFinal == UNION {Range(tasks[i].copyTo) : i \in 1..Len(tasks)}

\* C6: once the merge statement has run, after all the shard tasks, the files
\* of the final directory are the declared final outputs and nothing else,
\* whatever was in the directory before.
C6_MergeLeavesDeclaredOutputs ==
  exec.merge = "ok" => FilesBelow(GenSrcsDir, fs) = DeclaredFinal

\* the merge ran over a final directory that held a declared output and a
\* file that is no output
C6_Witness ==
  /\ exec.merge = "ok"
  /\ PathForModuleGen(<<"gensrcs">>, "old", "h") \in hist.fs0
  /\ PathForModuleGen(<<"gensrcs">>, "a", "h") \in hist.fs0 \cap DeclaredFinal
  /\ Len(tasks) = 3

\* C7: a second run of the merge statement over the same shard outputs leaves
\* the final directory with the files the first run left.
C7_MergeIdempotent ==
  \A i \in 2..Len(hist.merges) : hist.merges[i] = hist.merges[i - 1]

\* the merge ran twice, the first time over a directory with a stale file and
\* an archive left by an earlier build
C7_Witness ==
  /\ Len(hist.merges) = 2
  /\ exec.merge = "ok"
  /\ tmpZip # <<>>
  /\ PathForModuleGen(<<"gensrcs">>, "old", "h") \in hist.fs0

\* C8: the merge statement has the outputs of every shard task among its
\* inputs, so that it is started only when every shard task has succeeded,
\* and never when one of them failed.
C8_MergeAfterAllShards ==
  /\ module.set /\ emit.merge # <<>> =>
       \A i \in 1..Len(tasks) :
         Len(tasks[i].copyTo) > 0 => Range(tasks[i].out) \subseteq Range(emit.merge[1].implicits)
  /\ exec.merge \in {"running", "ok", "failed"} =>
       \A i \in DOMAIN exec.rule : exec.rule[i] = "ok"
  /\ (\E i \in DOMAIN exec.rule : exec.rule[i] = "failed") => exec.merge \in {"none", "idle"}

\* the merge statement of three shards is running
C8_Witness ==
  /\ exec.merge = "running"
  /\ Len(emit.rules) = 3
  /\ \A i \in DOMAIN exec.rule : exec.rule[i] = "ok"

\* the tasks of the same module without shards: shard_size left at its default
UnshardedTasks == GenSrcsTasks([props EXCEPT !.Shard_size = <<>>], props.Cmd, srcFiles)

\* Module.outputFiles of the module without shards
UnshardedOutputs == Flatten([i \in 1..Len(UnshardedTasks) |-> UnshardedTasks[i].out])

\* the files of the final directory after the run of the module without shards
UnshardedFinal ==
  FilesBelow(GenSrcsDir, hist.fs0)
    \cup UNION {TaskWrites(SboxRule(props, UnshardedTasks[i], <<>>, deps)) :
                  i \in 1..Len(UnshardedTasks)}

\* every statement of the module has run
AllDone ==
  /\ Runnable
  /\ \A i \in DOMAIN exec.rule : exec.rule[i] = "ok"
  /\ exec.merge \in {"none", "ok"}

ReferenceErrors ==
  {"unknown variable", "unknown location label", "unknown locations label",
   "label has no files", "default label has no files",
   "label has multiple files, use $(locations ...) to reference it",
   "default label has multiple files, use $(locations ...) to reference it",
   "at least one tools or tool_files is required if $(location) is used"}

\* the expansion e reported an error of a reference
HasReferenceError(e) == \E i \in 1..Len(e.rep) : e.rep[i].msg \in ReferenceErrors

\* the expansion e ended generation: a syntax error, or depfile never referenced
EndsGeneration(e) == e.err # "" \/ (props.Depfile /\ ~e.dep)

PlainLocationCalls ==
  {ec \in {<<n, i>> : n \in 1..Len(hist.expansions), i \in 1..Len(CmdErrors)} :
     /\ ec[2] <= Len(hist.expansions[ec[1]].calls)
     /\ hist.expansions[ec[1]].calls[ec[2]].name = <<"location">>
     /\ hist.expansions[ec[1]].calls[ec[2]].rep = <<>>}

\* the label of the first entry of tools, or of tool_files when tools is empty
FirstEntryLabel ==
  IF props.Tools # <<>> THEN Text(props.Tools[1]) ELSE EntryString(props.Tool_files[1])

\* the entries of tools whose module is present and enabled
PresentTools ==
  {i \in 1..Len(props.Tools) : config.tools[hostToolDependency(props.Tools[i]).module] = "host"}

\* the label registered first: the first entry of tools whose module is
\* present and enabled, the first entry of tools when there is no such entry,
\* the first entry of tool_files when tools is empty
FirstRegisteredLabel ==
  IF props.Tools = <<>> THEN EntryString(props.Tool_files[1])
  ELSE IF PresentTools = {} THEN Text(props.Tools[1])
  ELSE Text(props.Tools[CHOOSE i \in PresentTools : \A j \in PresentTools : i <= j])

C13_WritesInsideSandbox ==
  /\ \A i \in 1..Len(emit.rules) :
       \A p \in TaskWrites(emit.rules[i]) : Below(emit.rules[i].sboxDir, p)
  /\ \A i, j \in 1..Len(emit.rules) :
       i # j => emit.rules[i].sboxDir # emit.rules[j].sboxDir

\* the statements that have a dependency file
WithDepFile == {i \in 1..Len(emit.rules) : emit.rules[i].depFile # NoPath}

\* the final name of the first output of task i with the extension d
FirstOutputDepFile(i) ==
  ReplaceExtension(IF tasks[i].copyTo # <<>> THEN tasks[i].copyTo[1] ELSE tasks[i].out[1], "d")

C15_SameLabelsForEveryTask ==
  \A n, m \in 1..Len(hist.expansions) :
    /\ hist.expansions[n].locationLabels = hist.expansions[m].locationLabels
    /\ hist.expansions[n].firstLabel = hist.expansions[m].firstLabel

\* C15 (amended): a label bound when a task is expanded is bound to the same
\* paths when a later task is expanded, the default label is the same, and
\* the labels the later expansion sees in addition are names of outputs of
\* the tasks in between and of the later task.
C15_LabelsGrowByOutputs ==
  \A n, m \in 1..Len(hist.expansions) :
    n < m =>
      LET e == hist.expansions[n]
          f == hist.expansions[m]
      IN  /\ e.firstLabel = f.firstLabel
          /\ \A l \in DOMAIN e.locationLabels :
               l \in DOMAIN f.locationLabels /\ f.locationLabels[l] = e.locationLabels[l]
          /\ \A l \in DOMAIN f.locationLabels \ DOMAIN e.locationLabels :
               \E t \in (e.task + 1)..f.task : \E o \in 1..Len(tasks[t].out) :
                 l = Rel(tasks[t].out[o])

\* the reference $(location 1/b.h) was unknown when the first shard was
\* expanded and resolved to the output of the second shard when that was
C15_Witness ==
  /\ Len(hist.expansions) >= 2
  /\ "1/b.h" \notin DOMAIN hist.expansions[1].locationLabels
  /\ "1/b.h" \in DOMAIN hist.expansions[2].locationLabels
  /\ \E i \in 1..Len(hist.expansions[1].calls) :
       hist.expansions[1].calls[i].rep # <<>>
  /\ \E i \in 1..Len(hist.expansions[2].calls) :
       /\ hist.expansions[2].calls[i].name = <<"location", " ", "1/b.h">>
       /\ hist.expansions[2].calls[i].rep = <<>>

(***************************************************************************)
(* C16.  A label conflict and the rest of generation.                      *)
(***************************************************************************)
\* the addLocationLabel calls for a label that was bound already
Conflicts == {i \in 1..Len(hist.calls) : i # FirstCall(hist.calls[i].label)}

\* C16 (as claimed): after a label conflict no template is expanded, and no
\* build statement and no merge statement is emitted: every expansion, and so
\* every statement, is from before the conflict.  (bound is the number of
\* addLocationLabel calls made when the expansion starts.)
C16_ConflictStopsGeneration ==
  \A i \in Conflicts :
    /\ \A n \in 1..Len(hist.expansions) : hist.expansions[n].bound < i
    /\ emit.merge = <<>>
    /\ ~module.set

\* C16 (amended): a label conflict is reported and the label keeps the paths
\* of its first binding, and generation goes on: when nothing else ends it (a
\* task without outputs, a syntax error, a depfile that is not referenced),
\* every task is expanded and gets its build statement, a module with several
\* tasks gets its merge statement, and Module.outputFiles is set.
C16_ConflictReportedOnly ==
  \A i \in Conflicts :
    LET label == hist.calls[i].label
    IN  /\ Reported(ctx.errors, "multiple labels for", label) # {}
        /\ locationLabels[label] = hist.calls[FirstCall(label)].paths
        /\ ( /\ pc = "done" /\ TasksGenerated
             /\ \A t \in 1..Len(tasks) : ~HasNoOutputs(tasks[t])
             /\ \A n \in 1..Len(hist.expansions) : ~EndsGeneration(hist.expansions[n]) )
           => /\ module.set
              /\ Len(hist.expansions) = Len(tasks)
              /\ Len(emit.rules) = Len(tasks)
              /\ Len(tasks) > 1 => Len(emit.merge) = 1

\* a module with the same source file twice in three shards was generated to
\* its end after the conflict of its srcs: three statements and the merge
C16_Witness ==
  /\ Conflicts # {} /\ module.set
  /\ Len(emit.rules) = 3 /\ Len(emit.merge) = 1
  /\ \A i \in Conflicts : \A n \in 1..Len(hist.expansions) : hist.expansions[n].bound >= i

(***************************************************************************)
(* C17.  Placeholders for missing dependencies.                            *)
(***************************************************************************)
\* the labels were resolved: the function is at or past the task generator
LabelsResolved == pc \in {"generate", "task", "finish"} \/ (pc = "done" /\ TasksGenerated)

\* the entries of tools whose module is missing or disabled
AbsentTools ==
  {i \in 1..Len(props.Tools) :
     config.tools[hostToolDependency(props.Tools[i]).module] \in {"missing", "disabled"}}

\* the entries of srcs that refer to a module that is missing
AbsentSrcs ==
  {i \in 1..Len(props.Srcs) :
     PathsAndMissingDepsForModuleSrcExcludes(config, props.Srcs[i]).missingDeps # {}}

\* the labels of these entries, and the placeholder of a label
AbsentLabels ==
  {Text(props.Tools[i]) : i \in AbsentTools} \cup {EntryString(props.Srcs[i]) : i \in AbsentSrcs}

Placeholder(label) ==
  IF label \in {Text(props.Tools[i]) : i \in AbsentTools}
  THEN "***missing tool " \o label \o "***"
  ELSE "***missing srcs " \o label \o "***"

\* C17: when missing dependencies are allowed, once the labels are resolved
\* every entry of tools whose module is missing or disabled and every entry
\* of srcs whose module is missing is bound to its one placeholder, its
\* dependency is recorded as missing, and $(location entry) and
\* $(locations entry) expand to the placeholder without an error.
C17_PlaceholdersForMissing ==
  config.allowMissing /\ LabelsResolved =>
    /\ \A l \in AbsentLabels :
         l \in DOMAIN locationLabels /\ locationLabels[l] = <<Placeholder(l)>>
    /\ \A i \in AbsentTools : hostToolDependency(props.Tools[i]).module \in ctx.missingDeps
    /\ \A i \in AbsentSrcs :
         PathsAndMissingDepsForModuleSrcExcludes(config, props.Srcs[i]).missingDeps
           \subseteq ctx.missingDeps
    /\ \A n \in 1..Len(hist.expansions) : \A j \in 1..Len(hist.expansions[n].calls) :
         LET c == hist.expansions[n].calls[j]
         IN  (HasWordPrefix(c.name, "location") \/ HasWordPrefix(c.name, "locations"))
               /\ LabelOf(c.name) \in AbsentLabels
             => c.rep = <<>> /\ c.val = <<Placeholder(LabelOf(c.name))>>

\* a module with a missing tool and a srcs entry of a missing module was
\* expanded, with a reference to the srcs entry
C17_Witness ==
  /\ config.allowMissing /\ LabelsResolved
  /\ AbsentTools # {} /\ AbsentSrcs # {}
  /\ config.tools["t"] = "missing"
  /\ \E n \in 1..Len(hist.expansions) : \E j \in 1..Len(hist.expansions[n].calls) :
       hist.expansions[n].calls[j].val = <<"***missing srcs :m***">>

(***************************************************************************)
(* C18.  The escape $$.                                                    *)
(***************************************************************************)
\* the number of lexemes of s that are x
CountOf(s, x) == Cardinality({i \in 1..Len(s) : s[i] = x})

RECURSIVE EscapesFrom(_, _)
\* the number of $$ of the template s from position j, references skipped
EscapesFrom(s, j) ==
  IF j >= Len(s) THEN 0
  ELSE IF s[j] # "$" THEN EscapesFrom(s, j + 1)
  ELSE IF s[j + 1] = "$" THEN 1 + EscapesFrom(s, j + 2)
  ELSE IF s[j + 1] = "(" /\ ClosingParen(s, j + 2) # 0 THEN EscapesFrom(s, ClosingParen(s, j + 2) + 1)
  ELSE 0

Escapes(s) == EscapesFrom(s, 1)

\* how often the template is instantiated in the command of task i: once for
\* a genrule, once per source file of the shard for a gensrcs
Instances(i) == IF props.variant = "gensrcs" THEN Len(tasks[i].in) ELSE 1

\* C18: in both variants every $$ of the command template gives exactly one
\* literal $ in the command of the task, and the expansion reports no syntax
\* error, although a gensrcs template is expanded once per file and once
\* more per task.
C18_DollarEscapeLiteral ==
  \A n \in 1..Len(hist.expansions) :
    LET e == hist.expansions[n]
    IN  Escapes(props.Cmd) > 0 =>
          /\ e.err = ""
          /\ CountOf(e.out, "$") = Escapes(props.Cmd) * Instances(e.task)

(***************************************************************************)
(* C19.  A tool that is a disabled module.                                 *)
(***************************************************************************)
\* the modules of the tools entries that are disabled
DisabledTools ==
  {hostToolDependency(props.Tools[i]).module : i \in 1..Len(props.Tools)}
    \cap {t \in DOMAIN config.tools : config.tools[t] = "disabled"}

\* the tools were visited: the mutator added every dependency and the
\* function is past the tools block
ToolsVisited ==
  /\ pc \notin {"deps", "tools"}
  /\ config.allowMissing
       \/ \A i \in 1..Len(props.Tools) :
            config.tools[hostToolDependency(props.Tools[i]).module] # "missing"

DisabledError(t) == ModuleError("depends on disabled module", t)

\* C19: after the tools of a module with a disabled tool were visited: when
\* missing dependencies are not allowed the error "depends on disabled
\* module <tool>" is reported and the function has returned, with no label
\* of a tool_files or srcs entry bound, no task generated, no template
\* expanded and no rule emitted; when they are allowed no such error is
\* reported and the tool is recorded as a missing dependency.
C19_DisabledTool ==
  ToolsVisited =>
    \A t \in DisabledTools :
      IF config.allowMissing
      THEN /\ t \in ctx.missingDeps
           /\ \A i \in 1..Len(ctx.errors) : ctx.errors[i].msg # "depends on disabled module"
      ELSE /\ \E i \in 1..Len(ctx.errors) : ctx.errors[i] = DisabledError(t)
           /\ pc = "done"
           /\ \A i \in 1..Len(hist.calls) :
                \E j \in 1..Len(props.Tools) : hist.calls[i].label = Text(props.Tools[j])
           /\ tasks = <<>> /\ hist.expansions = <<>>
           /\ emit.rules = <<>> /\ ~module.set

\* a module with a disabled tool and a tool_files or srcs entry returned
\* after the tools block, missing dependencies not allowed
C19_Witness ==
  /\ ~config.allowMissing /\ ToolsVisited /\ DisabledTools # {}
  /\ Len(props.Tools) > 1
  /\ Len(props.Srcs) + Len(props.Tool_files) > 0
  /\ pc = "done"

(***************************************************************************)
(* C20.  Module references in tools and srcs.                              *)
(***************************************************************************)
\* the strings the module holds: the entries of tools and the srcs entries
\* that refer to a module
HeldStrings ==
  {props.Tools[i] : i \in 1..Len(props.Tools)}
    \cup {props.Srcs[i].ref : i \in {j \in 1..Len(props.Srcs) : props.Srcs[j].kind = "module"}}

\* s is ":m{t}" with a module name m that has no brace: the position of
\* the opening brace, 0 when s is not of that form
TagBrace(s) ==
  IF /\ Len(s) > 3 /\ s[1] = ":" /\ s[Len(s)] = "}"
     /\ \E i \in 3..(Len(s) - 1) : s[i] = "{" /\ \A j \in 2..(i - 1) : s[j] # "{"
  THEN CHOOSE i \in 3..(Len(s) - 1) : s[i] = "{" /\ \A j \in 2..(i - 1) : s[j] # "{"
  ELSE 0

\* s without its leading colon, s itself when there is none
Stripped(s) == IF s # <<>> /\ s[1] = ":" /\ Len(s) > 1 THEN SubSeq(s, 2, Len(s)) ELSE s

\* C20: for every string a module holds, SrcIsModule gives the string
\* without its leading colon, and the empty string when there is none;
\* SrcIsModuleWithTag splits ":m{t}" into m and t when the closing brace is
\* the last character, and gives SrcIsModule's answer with an empty tag for
\* anything else; once the mutator has run, every tools entry is a
\* dependency on the stripped name whose label is the whole entry; and a
\* srcs entry ":m{t}" is bound, under the whole entry, to the output t of m.
C20_ModuleReferences ==
  /\ \A s \in HeldStrings :
       /\ IF s[1] = ":" THEN <<":">> \o SrcIsModule(s) = s ELSE SrcIsModule(s) = <<>>
       /\ IF TagBrace(s) # 0
          THEN /\ SrcIsModuleWithTag(s).module = SubSeq(s, 2, TagBrace(s) - 1)
               /\ SrcIsModuleWithTag(s).tag = SubSeq(s, TagBrace(s) + 1, Len(s) - 1)
          ELSE SrcIsModuleWithTag(s) = [module |-> SrcIsModule(s), tag |-> <<>>]
  /\ pc # "deps" /\ (\A t \in DOMAIN config.tools : config.tools[t] # "missing") =>
       ctx.directDeps = [i \in 1..Len(props.Tools) |->
                           [label |-> Text(props.Tools[i]),
                            module |-> Text(Stripped(props.Tools[i]))]]
  /\ LabelsResolved /\ (\A m \in DOMAIN config.modules : config.modules[m] # "missing") =>
       \A i \in 1..Len(props.Srcs) :
         props.Srcs[i].kind = "module" =>
           LET s == props.Srcs[i].ref
               b == TagBrace(s)
               m == IF b # 0 THEN SubSeq(s, 2, b - 1) ELSE Stripped(s)
               t == IF b # 0 THEN SubSeq(s, b + 1, Len(s) - 1) ELSE <<>>
           IN  \E c \in 1..Len(hist.calls) :
                 hist.calls[c] = [label |-> Text(s),
                                  paths |-> <<String(ModuleOutPath(Text(m), Text(t)))>>]

\* a tools entry with a tag and a srcs entry with a tag were resolved
C20_Witness ==
  /\ LabelsResolved
  /\ props.Tools = <<<<":", "foo", "{", ".bar", "}">>>>
  /\ ctx.directDeps = <<[label |-> ":foo{.bar}", module |-> "foo{.bar}"]>>
  /\ props.Srcs = <<ModuleRef(<<":", "foo", "{", "}">>)>>
  /\ ":foo{}" \in DOMAIN locationLabels

(***************************************************************************)
(* C21.  A label keeps its first binding.                                  *)
(***************************************************************************)
\* C21: after any sequence of addLocationLabel calls the bound names are the
\* names that were passed, every name maps to the paths of the first call
\* that passed it, whatever later calls passed, and the default label is the
\* name of the very first call.
C21_FirstBindingKept ==
  /\ DOMAIN locationLabels = BoundLabels
  /\ \A l \in DOMAIN locationLabels : locationLabels[l] = hist.calls[FirstCall(l)].paths
  /\ firstLabel = IF hist.calls = <<>> THEN "" ELSE hist.calls[1].label

\* a name was passed twice with different paths, after another name
C21_Witness ==
  \E i, j \in 1..Len(hist.calls) :
    /\ 1 < i /\ i < j
    /\ hist.calls[i].label = hist.calls[j].label
    /\ hist.calls[i].paths # hist.calls[j].paths
    /\ hist.calls[1].label # hist.calls[i].label
    /\ i = FirstCall(hist.calls[i].label)

(***************************************************************************)
(* C22.  The tasks of a gensrcs module as runs of the source list.         *)
(***************************************************************************)
\* the number of source files in the tasks before task i
InputsBefore(i) == Len(Flatten([j \in 1..(i - 1) |-> tasks[j].in]))

\* C22: for a gensrcs module with a source list that is not empty, every
\* task has at least one and at most shardSize inputs, the inputs of task i
\* are the run of the source list that starts where the run of task i - 1
\* ends, so the runs share no position, and the task carries its position
\* (from 0) as shard and the number of tasks as shards.
C22_TasksAreRuns ==
  TasksGenerated /\ props.variant = "gensrcs" /\ srcFiles # <<>> =>
    \A i \in 1..Len(tasks) :
      /\ 1 <= Len(tasks[i].in) /\ Len(tasks[i].in) <= ShardSizeOf(props)
      /\ InputsBefore(i) + Len(tasks[i].in) <= Len(srcFiles)
      /\ tasks[i].in = SubSeq(srcFiles, InputsBefore(i) + 1, InputsBefore(i) + Len(tasks[i].in))
      /\ tasks[i].shard = i - 1
      /\ tasks[i].shards = Len(tasks)

\* three source files in shards of two
C22_Witness ==
  /\ TasksGenerated /\ props.variant = "gensrcs"
  /\ Len(srcFiles) = 3 /\ ShardSizeOf(props) = 2
  /\ Len(tasks) = 2 /\ tasks[2].shard = 1 /\ tasks[2].in = SubSeq(srcFiles, 3, 3)
  /\ srcFiles[1] = srcFiles[3]

(***************************************************************************)
(* C23.  The command of a gensrcs task.                                    *)
(***************************************************************************)
RECURSIVE BindInOut(_, _, _, _)
\* the template s from position j with every $(in) replaced by in and every
\* $(out) by out, and everything else left as it is
BindInOut(s, j, in, out) ==
  IF j > Len(s) THEN <<>>
  ELSE IF s[j] = "$" /\ j < Len(s) /\ s[j + 1] = "(" /\ ClosingParen(s, j + 2) # 0 THEN
    LET close == ClosingParen(s, j + 2)
        name == TrimSpace(SubSeq(s, j + 2, close - 1))
    IN  (IF name = <<"in">> THEN <<in>>
         ELSE IF name = <<"out">> THEN <<out>>
         ELSE SubSeq(s, j, close)) \o BindInOut(s, close + 1, in, out)
  ELSE <<s[j]>> \o BindInOut(s, j + 1, in, out)

\* the command of the j-th source file of task i, as C23 describes it
PerFileAsClaimed(i, j) ==
  <<"bash", " ", "-c", " ">>
    \o ShellEscape(BindInOut(props.Cmd, 1, String(tasks[i].in[j]),
                             SboxPathForOutput(tasks[i].out[j], tasks[i].genDir)))

\* C23: the command of every gensrcs task is the commands of its source
\* files joined by " && " in input order; the command of the j-th file is the
\* template with $(in) replaced by that file and $(out) by the sandbox path
\* of the j-th output of the task, shell-escaped as one unit behind bash -c.
\* The order in which the commands run, and that a failing one ends the
\* task, rests on this form.
C23_PerFileCommands ==
  TasksGenerated /\ props.variant = "gensrcs" =>
    \A i \in 1..Len(tasks) :
      /\ Len(tasks[i].out) = Len(tasks[i].in)
      /\ tasks[i].cmd = JoinCommands([j \in 1..Len(tasks[i].in) |-> PerFileAsClaimed(i, j)])

(***************************************************************************)
(* C24.  One error for every reference that fails.                         *)
(***************************************************************************)
\* the reference name fails in the expansion e: an unknown variable, an
\* unknown label, a label without files, a singular reference to a label
\* with several files, $(depfile) without the property, $(location) without
\* tools and tool_files or with a default label that has not one file
FailingRef(e, name) ==
  IF name = <<"location">> THEN
    (Len(props.Tools) = 0 /\ Len(props.Tool_files) = 0) \/ Len(PathsAt(e, e.firstLabel)) # 1
  ELSE IF name \in {<<"in">>, <<"out">>, <<"genDir">>} THEN FALSE
  ELSE IF name = <<"depfile">> THEN ~props.Depfile
  ELSE IF HasWordPrefix(name, "location") THEN Len(PathsAt(e, LabelOf(name))) # 1
  ELSE IF HasWordPrefix(name, "locations") THEN Len(PathsAt(e, LabelOf(name))) = 0
  ELSE TRUE

\* the errors the context holds from position i on start with errs
ReportedFrom(i, errs) ==
  i + Len(errs) - 1 <= Len(ctx.errors) /\ SubSeq(ctx.errors, i, i + Len(errs) - 1) = errs

\* C24: the expansion of a template examines every reference up to the end
\* of the template (or its first syntax error), reports exactly one error
\* for every reference that fails and none for the others, and the context
\* holds these errors one after the other in the order of the references.
C24_OneErrorPerFailingRef ==
  \A n \in 1..Len(hist.expansions) :
    LET e == hist.expansions[n]
        names == Refs(e.cmd).names
    IN  /\ Len(e.calls) = Len(names)
        /\ \A j \in 1..Len(names) :
             /\ e.calls[j].name = names[j]
             /\ Len(e.calls[j].rep) = IF FailingRef(e, names[j]) THEN 1 ELSE 0
        /\ e.rep = Flatten([j \in 1..Len(e.calls) |-> e.calls[j].rep])
        /\ Len(e.rep) = Cardinality({j \in 1..Len(names) : FailingRef(e, names[j])})
        /\ \E i \in 1..(Len(ctx.errors) + 1) : ReportedFrom(i, e.rep)

\* a template with four failing references between good ones was expanded,
\* and a statement emitted for it
C24_Witness ==
  /\ props.Cmd = CmdErrors /\ Len(hist.expansions) = 1 /\ Len(emit.rules) = 1
  /\ LET e == hist.expansions[1]
     IN  /\ Len(e.calls) = 8 /\ Len(e.rep) = 4
         /\ e.rep[1].msg = "unknown variable"
         /\ e.rep[2].msg = "unknown location label"
         /\ e.rep[3].msg = "label has no files"
         /\ e.rep[4].msg = "label has multiple files, use $(locations ...) to reference it"
         /\ e.calls[7].rep = <<>> /\ e.calls[4].rep = <<>>

(***************************************************************************)
(* C25.  $(location) needs a tool.                                         *)
(***************************************************************************)
NoToolDeclared == "at least one tools or tool_files is required if $(location) is used"

\* the bindings that come from tools and tool_files: the path of a host
\* tool or its placeholder, and the paths of a tool_files entry
ToolBindings ==
  {[label |-> Text(props.Tools[i]),
    paths |-> <<String(HostToolPath(hostToolDependency(props.Tools[i]).module))>>] :
     i \in 1..Len(props.Tools)}
  \cup {[label |-> Text(props.Tools[i]),
         paths |-> <<"***missing tool " \o Text(props.Tools[i]) \o "***">>] :
          i \in 1..Len(props.Tools)}
  \cup {[label |-> EntryString(props.Tool_files[i]),
         paths |-> Strings(PathsForModuleSrc(props.Tool_files[i]))] :
          i \in 1..Len(props.Tool_files)}

\* C25: a reference $(location) in a module without tools and tool_files is
\* reported, whatever labels of srcs entries and outputs are bound; and when
\* $(location) expands without an error, its value is the one path of the
\* default label, and the default label is the label of the first binding
\* ever made, which is one of a tools or tool_files entry: bindings of srcs
\* entries and outputs come later and never become the default.
C25_LocationFromToolsOnly ==
  \A n \in 1..Len(hist.expansions) :
    LET e == hist.expansions[n]
    IN  \A j \in 1..Len(e.calls) :
          e.calls[j].name = <<"location">> =>
            /\ props.Tools = <<>> /\ props.Tool_files = <<>> =>
                 e.calls[j].rep = <<PropertyError("cmd", NoToolDeclared, "")>>
            /\ e.calls[j].rep = <<>> =>
                 /\ e.firstLabel = hist.calls[1].label
                 /\ hist.calls[1] \in ToolBindings
                 /\ e.calls[j].val = <<hist.calls[1].paths[1]>>

\* $(location) was reported in a module without tools whose srcs entry and
\* output are bound
C25_Witness ==
  /\ props.Tools = <<>> /\ props.Tool_files = <<>>
  /\ Cardinality(DOMAIN locationLabels) >= 2
  /\ \E n \in 1..Len(hist.expansions) : \E j \in 1..Len(hist.expansions[n].calls) :
       /\ hist.expansions[n].calls[j].name = <<"location">>
       /\ hist.expansions[n].calls[j].rep # <<>>
       /\ PathsAt(hist.expansions[n], hist.expansions[n].firstLabel) # <<>>

(***************************************************************************)
(* C26.  Module.outputFiles and Module.outputDeps.                         *)
(***************************************************************************)
\* the final output files of the module: the out names of a genrule, the
\* file of every source file of a gensrcs, below the gen directory
FinalOutputs ==
  IF props.variant = "gensrcs"
  THEN [i \in 1..Len(srcFiles) |-> GenPathWithExt("gensrcs", srcFiles[i], props.Output_extension)]
  ELSE [i \in 1..Len(props.Out) |-> PathForModuleGen(<<>>, props.Out[i].stem, props.Out[i].ext)]

PhonyFile == PathForModuleGen(<<>>, "genrule-phony", "")

\* C26: once generation ran to its end, Module.outputFiles (which
\* GeneratedSourceFiles returns) is the list of the final output files;
\* Module.outputDeps (which GeneratedDeps returns) is that list when it has
\* at most six files and no phony statement is emitted, and is the one phony
\* file otherwise, whose statement has the whole list as inputs.
C26_OutputDeps ==
  module.set =>
    /\ module.outputFiles = FinalOutputs
    /\ IF Len(FinalOutputs) <= 6
       THEN module.outputDeps = FinalOutputs /\ emit.phony = <<>>
       ELSE /\ module.outputDeps = <<PhonyFile>>
            /\ emit.phony = <<[output |-> PhonyFile, inputs |-> FinalOutputs]>>

\* a gensrcs module of two shards with seven outputs was generated
C26_Witness ==
  /\ module.set /\ props.variant = "gensrcs"
  /\ Len(tasks) = 2 /\ Len(module.outputFiles) = 7
  /\ module.outputDeps = <<PhonyFile>>

(***************************************************************************)
(* C27.  Module.outputFiles[0].                                            *)
(***************************************************************************)
\* C27: when GenerateAndroidBuildActions ran to its end and reported no
\* error, Module.outputFiles is not empty, so that AndroidMk can read its
\* first element; for a genrule and for a gensrcs, one without source files
\* included.
C27_OutputFilesNotEmpty ==
  module.set /\ ctx.errors = <<>> => module.outputFiles # <<>>

(***************************************************************************)
(* C28.  The shard size the task generator of a gensrcs works with.        *)
(***************************************************************************)
\* the task generator was called
GeneratorCalled == pc \in {"task", "finish", "panic"} \/ TasksGenerated

\* C28: whatever shard_size is configured, 0 and negative values included,
\* the task generator of a gensrcs returns a task list: the shard size it
\* plans with is at least 1, or the value is reported as an error.
C28_GeneratorReturns ==
  props.variant = "gensrcs" /\ GeneratorCalled =>
    /\ pc # "panic"
    /\ ShardSizeOf(props) >= 1 \/ ctx.errors # <<>>

(***************************************************************************)
(* C29.  The final outputs of a module are distinct.                       *)
(***************************************************************************)
\* no element of the sequence occurs twice
Distinct(seq) == \A i, j \in 1..Len(seq) : i # j => seq[i] # seq[j]

\* C29: when generation ran to its end and reported no error, no file occurs
\* twice among the final outputs of the module, whether the outputs come
\* from one task or from several shards, and the merge statement does not
\* declare an output twice.
C29_FinalOutputsDistinct ==
  module.set /\ ctx.errors = <<>> =>
    /\ Distinct(module.outputFiles)
    /\ \A i \in 1..Len(emit.merge) : Distinct(emit.merge[i].outputs)

(***************************************************************************)
(* C30.  $(out), $(location <output>) and $(genDir).                       *)
(***************************************************************************)
\* a conflict was reported for the label
ConflictReported(label) == Reported(ctx.errors, "multiple labels for", label) # {}

====
